---------------------------- MODULE Spec2Model ----------------------------
(***************************************************************************)
(* A model of the document core of rpged (src/src/model.hpp, model.cpp):   *)
(* the selection map, the tile layers, the undoable commands applied by    *)
(* model_t::undo and the two-stack undo history.                           *)
(*                                                                         *)
(* Grids are stored as grid_t stores them: a dimension and a row-major     *)
(* sequence of cells.  The geometry helpers of 2d/geometry.hpp and the     *)
(* container grid_t of 2d/grid.hpp are not part of src/; they are modelled *)
(* from their use and from the specification.                              *)
(***************************************************************************)
EXTENDS Integers, Sequences, FiniteSets, TLC

VARIABLES
    m_selection,          \* select_map_t::m_selection (grid of 0/1)
    m_select_rect,        \* select_map_t::m_select_rect
    palette_num,          \* palette_model_t::num
    color_tiles,          \* color_layer_t::tiles
    chr_tiles,            \* level_model_t::chr_layer.tiles
    collision_tiles,      \* level_model_t::collision_layer.tiles
    objects,              \* level_model_t::objects
    modified,             \* model_t::modified
    modified_since_save,  \* model_t::modified_since_save
    history,              \* undo_history_t::history[2]
    last,                 \* the last call made and its arguments
    ret,                  \* the value the last call returned
    pre,                  \* the document as it was before the last call
    pre_history,          \* the history as it was before the last call
    project,              \* model_t, the members the project file holds
    fp,                   \* the bytes of the project file
    chr_file,             \* chr_file_t: chr and indices of a CHR source
    chr_bitmaps,          \* level_model_t::chr_bitmaps of that source
    tile_layer,           \* tile_layer_t: the selectors and tiles of a layer
    level_model,          \* level_model_t: chr_layer and collision_layer
    mon                   \* bookkeeping of the run (call counters, phases)

selVars == <<m_selection, m_select_rect>>
docVars == <<palette_num, color_tiles, chr_tiles, collision_tiles, objects>>
dirtyVars == <<modified, modified_since_save>>
fileVars == <<project, fp>>
chrVars == <<chr_file, chr_bitmaps>>
vars == <<m_selection, m_select_rect, palette_num, color_tiles, chr_tiles,
          collision_tiles, objects, modified, modified_since_save, history,
          last, ret, pre, pre_history, project, fp, chr_file, chr_bitmaps,
          tile_layer, level_model, mon>>

---------------------------------------------------------------------------
(* Bounds of the model.                                                    *)

\* Largest width and height of a selection map or of the graphics canvas.
MaxW == 2
MaxH == 2
\* The palette layer's grid (25 x 256 in color_layer_t) scaled down.
ColorW == 1
ColorH == 2
\* Largest number of commands applied in a run of single commands.
MaxSteps == 2
\* Largest number of objects of the level.
MaxObjs == 3

\* Largest number of undo() and redo() calls in a run of the long history,
\* and of pushes after the first of them.
MaxHistCalls == 3
MaxLatePushes == 2
\* Largest number of edits in a session.
MaxEdits == 2

\* The number of 16-byte tiles chr_array_t holds (1024 in model.hpp).
MaxChrTiles == 3
\* The dimensions of the picker and of the canvas of the layer fill() is
\* called on.
PickerW == 3
PickerH == 4
CanvasW == 6
CanvasH == 6

\* Width and height of a new level, in place of 24 x 24.
LevelW == 4
LevelH == 4

\* INT_MAX of select_map_t::select_invert.
INT_MAX == 2147483647

\* UNDO_LIMIT of model.hpp.
UNDO_LIMIT == 256

---------------------------------------------------------------------------
(* 2d/geometry.hpp: coord_t, dimen_t, rect_t and their helpers.            *)

Min(S) == CHOOSE a \in S : \A b \in S : a <= b
Max(S) == CHOOSE a \in S : \A b \in S : a >= b

Coord(x, y) == [x |-> x, y |-> y]
Dimen(w, h) == [w |-> w, h |-> h]
Rect(c, d) == [c |-> c, d |-> d]

\* rect_t{}: the value-initialised rectangle.
EmptyRect == Rect(Coord(0, 0), Dimen(0, 0))

\* dimen_t::operator bool and rect_t::operator bool: a non-empty area.
DimenBool(d) == d.w > 0 /\ d.h > 0
RectBool(r) == DimenBool(r.d)

to_rect(d) == Rect(Coord(0, 0), d)
to_coord(d) == Coord(d.w, d.h)

in_bounds(c, d) == c.x >= 0 /\ c.y >= 0 /\ c.x < d.w /\ c.y < d.h

\* rect_from_2_coords(min, max): the rectangle with these two corners.
rect_from_2_coords(a, b) ==
    Rect(Coord(Min({a.x, b.x}), Min({a.y, b.y})),
         Dimen(Max({a.x, b.x}) - Min({a.x, b.x}) + 1,
               Max({a.y, b.y}) - Min({a.y, b.y}) + 1))

\* rect_range(r): the cells of r, row by row.
rect_range(r) ==
    IF RectBool(r)
    THEN [i \in 1..(r.d.w * r.d.h) |->
             Coord(r.c.x + ((i - 1) % r.d.w), r.c.y + ((i - 1) \div r.d.w))]
    ELSE <<>>

dimen_range(d) == rect_range(to_rect(d))

\* The cells of a rectangle, as a set.
RectCells(r) == {rect_range(r)[i] : i \in DOMAIN rect_range(r)}

\* crop(r, d): the part of r inside the dimension d; rect_t{} when none.
crop(r, d) ==
    LET x0 == Max({r.c.x, 0})
        y0 == Max({r.c.y, 0})
        x1 == Min({r.c.x + r.d.w, d.w})
        y1 == Min({r.c.y + r.d.h, d.h})
    IN  IF RectBool(r) /\ x1 > x0 /\ y1 > y0
        THEN Rect(Coord(x0, y0), Dimen(x1 - x0, y1 - y0))
        ELSE EmptyRect

\* grow_rect_to_contain(r, r2): the smallest rectangle holding r and r2.
grow_rect(r, r2) ==
    IF ~RectBool(r) THEN r2
    ELSE IF ~RectBool(r2) THEN r
    ELSE LET x0 == Min({r.c.x, r2.c.x})
             y0 == Min({r.c.y, r2.c.y})
             x1 == Max({r.c.x + r.d.w, r2.c.x + r2.d.w})
             y1 == Max({r.c.y + r.d.h, r2.c.y + r2.d.h})
         IN  Rect(Coord(x0, y0), Dimen(x1 - x0, y1 - y0))

grow_rect_to_contain(r, c) == grow_rect(r, Rect(c, Dimen(1, 1)))

---------------------------------------------------------------------------
(* 2d/grid.hpp: grid_t<T>, a dimension and a row-major store.              *)

Grid(d, m) == [d |-> d, m |-> m]

\* The position of cell c in the store.
GridIndex(d, c) == c.y * d.w + c.x + 1

\* grid_t(d): d.w * d.h value-initialised cells.
GridNew(d, fill) == Grid(d, [i \in 1..(d.w * d.h) |-> fill])

GridGet(g, c) == g.m[GridIndex(g.d, c)]

GridSet(g, c, v) == Grid(g.d, [g.m EXCEPT ![GridIndex(g.d, c)] = v])

\* grid_t::fill
GridFill(g, v) == GridNew(g.d, v)

\* grid_t::resize: cells inside both dimensions keep their value, cells
\* outside the new dimension are dropped, new cells are value-initialised.
GridResize(g, d, fill) ==
    Grid(d, [i \in 1..(d.w * d.h) |->
               LET c == Coord((i - 1) % d.w, (i - 1) \div d.w)
               IN  IF in_bounds(c, g.d) THEN GridGet(g, c) ELSE fill])

\* The cells of a grid that hold v.
CellsWith(g, v) == {c \in RectCells(to_rect(g.d)) : GridGet(g, c) = v}

---------------------------------------------------------------------------
(* select_map_t: a grid of selected cells and the cached bounding          *)
(* rectangle of the selected ones.  A select map is the record             *)
(* [sel |-> m_selection, rect |-> m_select_rect].                          *)

SelMap(sel, rect) == [sel |-> sel, rect |-> rect]

\* select_map_t(): an empty grid and an empty rectangle.
SelMapNew == SelMap(GridNew(Dimen(0, 0), 0), EmptyRect)

\* The selected cells among those of range.
SelectedIn(sel, range) == {c \in RectCells(range) : GridGet(sel, c) = 1}

\* select_map_t::recalc_select_rect(range), on the selection grid sel:
\* min starts at to_coord(dimen()), max at {0, 0}.
recalc_select_rect(sel, range) ==
    LET S == SelectedIn(sel, range)
        min == Coord(Min({sel.d.w} \cup {c.x : c \in S}),
                     Min({sel.d.h} \cup {c.y : c \in S}))
        max == Coord(Max({0} \cup {c.x : c \in S}),
                     Max({0} \cup {c.y : c \in S}))
    IN  IF min.x <= max.x /\ min.y <= max.y
        THEN rect_from_2_coords(min, max)
        ELSE EmptyRect

\* select_map_t::select_all(select)
select_all(sm, select) ==
    SelMap(GridFill(sm.sel, IF select THEN 1 ELSE 0),
           IF select THEN to_rect(sm.sel.d) ELSE EmptyRect)

\* select_map_t::select_invert(): min starts at INT_MAX, max at {0, 0}.
select_invert(sm) ==
    LET inv == Grid(sm.sel.d, [i \in DOMAIN sm.sel.m |-> 1 - sm.sel.m[i]])
        S == CellsWith(inv, 1)
        min == Coord(Min({INT_MAX} \cup {c.x : c \in S}),
                     Min({INT_MAX} \cup {c.y : c \in S}))
        max == Coord(Max({0} \cup {c.x : c \in S}),
                     Max({0} \cup {c.y : c \in S}))
    IN  SelMap(inv, IF min.x > max.x \/ min.y > max.y
                    THEN EmptyRect
                    ELSE rect_from_2_coords(min, max))

\* select_map_t::select(coord_t c, bool select)
select_coord(sm, c, select) ==
    IF ~in_bounds(c, sm.sel.d) THEN sm
    ELSE LET sel == GridSet(sm.sel, c, IF select THEN 1 ELSE 0)
         IN  IF select
             THEN SelMap(sel, grow_rect_to_contain(sm.rect, c))
             ELSE SelMap(sel, recalc_select_rect(sel, sm.rect))

\* The grid with every cell of the rectangle r set to v.
GridSetRect(g, r, v) ==
    Grid(g.d, [i \in DOMAIN g.m |->
                 IF \E c \in RectCells(r) : GridIndex(g.d, c) = i
                 THEN v ELSE g.m[i]])

\* select_map_t::select(rect_t r, bool select)
select_rect(sm, r0, select) ==
    LET r == crop(r0, sm.sel.d)
    IN  IF ~RectBool(r) THEN sm
        ELSE LET sel == GridSetRect(sm.sel, r, IF select THEN 1 ELSE 0)
             IN  IF select
                 THEN SelMap(sel, grow_rect(sm.rect, r))
                 ELSE SelMap(sel, recalc_select_rect(sel, sm.rect))

\* select_map_t::resize(d)
select_resize(sm, d) ==
    LET sel == GridResize(sm.sel, d, 0)
    IN  SelMap(sel, recalc_select_rect(sel, to_rect(d)))

---------------------------------------------------------------------------
(* The document: the palette count, the three tile grids and the objects   *)
(* of the level.  The model holds one level.                               *)

Doc(num, color, chr, coll, objs) ==
    [palette_num |-> num, color_tiles |-> color, chr_tiles |-> chr,
     collision_tiles |-> coll, objects |-> objs]

TheDoc == Doc(palette_num, color_tiles, chr_tiles, collision_tiles, objects)

\* The layers a command can point to.
Layers == {"color", "chr", "collision"}

\* tile_layer_t::tiles of a layer.
LayerTiles(doc, layer) ==
    CASE layer = "color" -> doc.color_tiles
      [] layer = "chr" -> doc.chr_tiles
      [] layer = "collision" -> doc.collision_tiles

WithLayerTiles(doc, layer, g) ==
    CASE layer = "color" -> [doc EXCEPT !.color_tiles = g]
      [] layer = "chr" -> [doc EXCEPT !.chr_tiles = g]
      [] layer = "collision" -> [doc EXCEPT !.collision_tiles = g]

\* tile_layer_t::canvas_dimen, and color_layer_t's override: the palette
\* layer's canvas is as high as the palette count.
canvas_dimen(doc, layer) ==
    IF layer = "color"
    THEN Dimen(doc.color_tiles.d.w, doc.palette_num)
    ELSE LayerTiles(doc, layer).d

\* tile_layer_t::get
get(doc, layer, c) == GridGet(LayerTiles(doc, layer), c)

\* tile_layer_t::set
set(doc, layer, c, value) ==
    WithLayerTiles(doc, layer, GridSet(LayerTiles(doc, layer), c, value))

(* The commands of undo_t. *)
NoOp == [type |-> "monostate"]
undo_tiles_t(layer, rect, tiles) ==
    [type |-> "undo_tiles_t", layer |-> layer, rect |-> rect, tiles |-> tiles]
undo_palette_num_t(num) == [type |-> "undo_palette_num_t", num |-> num]
undo_level_dimen_t(tiles) ==
    [type |-> "undo_level_dimen_t", layer |-> "chr", tiles |-> tiles]
undo_new_object_t(indices) ==
    [type |-> "undo_new_object_t", indices |-> indices]
undo_delete_object_t(objs) ==
    [type |-> "undo_delete_object_t", objects |-> objs]
undo_edit_object_t(index, object) ==
    [type |-> "undo_edit_object_t", index |-> index, object |-> object]
undo_move_objects_t(indices, positions) ==
    [type |-> "undo_move_objects_t", indices |-> indices,
     positions |-> positions]

\* tile_layer_t::save(rect): the values of the rectangle, cropped to the
\* canvas, as a tile-region command.
save(doc, layer, rect0) ==
    LET rect == crop(rect0, canvas_dimen(doc, layer))
        cells == rect_range(rect)
    IN  undo_tiles_t(layer, rect,
                     [i \in DOMAIN cells |-> get(doc, layer, cells[i])])

\* The loop of model_t::operator()(undo_tiles_t): set(c, tiles[i++]) for
\* the cells of the rectangle from the i-th on.
RECURSIVE SetTiles(_, _, _, _, _)
SetTiles(doc, layer, cells, tiles, i) ==
    IF i > Len(cells) THEN doc
    ELSE SetTiles(set(doc, layer, cells[i], tiles[i]), layer, cells, tiles,
                  i + 1)

\* A result of applying a command: the new document, the command returned.
Outcome(doc, r) == [doc |-> doc, ret |-> r]

\* In place of a command returned: std::out_of_range left the operator,
\* thrown by deque::at or vector::at.
out_of_range == [type |-> "out_of_range"]

\* A result of applying a command that ends with the exception.
Thrown(doc) == Outcome(doc, out_of_range)

\* A variant of operator()(undo_tiles_t) that takes its snapshot after the
\* cells are written.
apply_tiles_snapshot_late(doc, undo) ==
    LET d2 == SetTiles(doc, undo.layer, rect_range(undo.rect), undo.tiles, 1)
    IN  Outcome(d2, save(d2, undo.layer, undo.rect))

\* model_t::operator()(undo_tiles_t const&)
apply_tiles(doc, undo) ==
    Outcome(SetTiles(doc, undo.layer, rect_range(undo.rect), undo.tiles, 1),
            save(doc, undo.layer, undo.rect))

\* model_t::operator()(undo_palette_num_t const&)
apply_palette_num(doc, undo) ==
    Outcome([doc EXCEPT !.palette_num = undo.num],
            undo_palette_num_t(doc.palette_num))

\* A variant of operator()(undo_level_dimen_t) that returns the grid it
\* installs in place of the prior one.
apply_level_dimen_keeps_new(doc, undo) ==
    Outcome(WithLayerTiles(doc, undo.layer, undo.tiles),
            undo_level_dimen_t(undo.tiles))

\* model_t::operator()(undo_level_dimen_t const&)
apply_level_dimen(doc, undo) ==
    Outcome(WithLayerTiles(doc, undo.layer, undo.tiles),
            undo_level_dimen_t(LayerTiles(doc, undo.layer)))

---------------------------------------------------------------------------
(* The object commands.  Indices are those of the source, from 0; the      *)
(* object at index i of the deque is element i + 1 of the sequence.        *)

Reverse(q) == [i \in 1..Len(q) |-> q[Len(q) + 1 - i]]

\* std::pair<unsigned, object_t>
Pair(first, second) == [first |-> first, second |-> second]

\* objects.at(index)
at(objs, index) == objs[index + 1]

\* objects.erase(objects.begin() + index), index < size.
EraseAt(objs, index) ==
    [i \in 1..(Len(objs) - 1) |-> IF i <= index THEN objs[i] ELSE objs[i + 1]]

\* objects.insert(objects.begin() + index, o), index <= size.
InsertAt(objs, index, o) ==
    [i \in 1..(Len(objs) + 1) |->
        IF i <= index THEN objs[i]
        ELSE IF i = index + 1 THEN o ELSE objs[i - 1]]

\* What erasing at an iterator at or past the end may leave behind (the
\* call is undefined): the deque as it was, or the deque without its last
\* element.
EraseUndefined(objs) ==
    {objs} \cup (IF Len(objs) > 0 THEN {SubSeq(objs, 1, Len(objs) - 1)} ELSE {})

\* What inserting at an iterator past the end may leave behind (the call is
\* undefined): the deque as it was, or the deque with the object appended.
InsertUndefined(objs, o) == {objs, Append(objs, o)}

\* The second loop of operator()(undo_new_object_t): the indices are erased
\* one after the other, in the order the command lists them.
RECURSIVE EraseAll(_, _)
EraseAll(objs, indices) ==
    IF indices = <<>> THEN {objs}
    ELSE LET next == IF Head(indices) < Len(objs)
                     THEN {EraseAt(objs, Head(indices))}
                     ELSE EraseUndefined(objs)
         IN  UNION {EraseAll(o, Tail(indices)) : o \in next}

\* The second loop of operator()(undo_delete_object_t): the pairs are
\* inserted one after the other, in the order the command lists them.
RECURSIVE InsertAll(_, _)
InsertAll(objs, pairs) ==
    IF pairs = <<>> THEN {objs}
    ELSE LET p == Head(pairs)
             next == IF p.first <= Len(objs)
                     THEN {InsertAt(objs, p.first, p.second)}
                     ELSE InsertUndefined(objs, p.second)
         IN  UNION {InsertAll(o, Tail(pairs)) : o \in next}

\* A variant of operator()(undo_new_object_t) that records the objects in
\* the order the command lists them, not last listed first.
apply_new_object_unreversed(doc, undo) ==
    LET r == undo_delete_object_t(
                 [i \in DOMAIN undo.indices |->
                     Pair(undo.indices[i], at(doc.objects, undo.indices[i]))])
    IN  {Outcome([doc EXCEPT !.objects = o], r) :
            o \in EraseAll(doc.objects, undo.indices)}

\* model_t::operator()(undo_new_object_t const&): the objects at the listed
\* indices are recorded, last listed first, then erased.
apply_new_object(doc, undo) ==
    LET rev == Reverse(undo.indices)
        r == undo_delete_object_t(
                 [i \in DOMAIN rev |-> Pair(rev[i], at(doc.objects, rev[i]))])
    IN  IF \E i \in DOMAIN rev : rev[i] >= Len(doc.objects)
        THEN {Thrown(doc)}
        ELSE {Outcome([doc EXCEPT !.objects = o], r) :
                 o \in EraseAll(doc.objects, undo.indices)}

\* model_t::operator()(undo_delete_object_t const&): the indices are
\* recorded, last listed first, then the objects inserted.
apply_delete_object(doc, undo) ==
    LET rev == Reverse(undo.objects)
        r == undo_new_object_t([i \in DOMAIN rev |-> rev[i].first])
    IN  {Outcome([doc EXCEPT !.objects = o], r) :
            o \in InsertAll(doc.objects, undo.objects)}

\* model_t::operator()(undo_edit_object_t const&)
apply_edit_object(doc, undo) ==
    IF undo.index >= Len(doc.objects)
    THEN Thrown(doc)
    ELSE Outcome([doc EXCEPT !.objects[undo.index + 1] = undo.object],
                 undo_edit_object_t(undo.index, at(doc.objects, undo.index)))

\* The second loop of operator()(undo_move_objects_t), from the i-th index.
RECURSIVE SetPositions(_, _, _, _)
SetPositions(objs, indices, positions, i) ==
    IF i > Len(indices) THEN objs
    ELSE SetPositions([objs EXCEPT ![indices[i] + 1].position = positions[i]],
                      indices, positions, i + 1)

\* A variant of operator()(undo_move_objects_t) that reads the positions it
\* returns after the objects are moved.
apply_move_objects_reads_late(doc, undo) ==
    LET objs == SetPositions(doc.objects, undo.indices, undo.positions, 1)
    IN  Outcome([doc EXCEPT !.objects = objs],
                undo_move_objects_t(
                    undo.indices,
                    [i \in DOMAIN undo.indices |->
                        at(objs, undo.indices[i]).position]))

\* model_t::operator()(undo_move_objects_t const&)
apply_move_objects(doc, undo) ==
    IF \E i \in DOMAIN undo.indices : undo.indices[i] >= Len(doc.objects)
    THEN Thrown(doc)
    ELSE IF Len(undo.positions) < Len(undo.indices)
    THEN Thrown([doc EXCEPT !.objects =
                    SetPositions(doc.objects,
                                 SubSeq(undo.indices, 1, Len(undo.positions)),
                                 undo.positions, 1)])
    ELSE Outcome([doc EXCEPT !.objects =
                     SetPositions(doc.objects, undo.indices, undo.positions,
                                  1)],
                 undo_move_objects_t(
                     undo.indices,
                     [i \in DOMAIN undo.indices |->
                         at(doc.objects, undo.indices[i]).position]))

\* std::visit(*this, undo) of model_t::undo: the results the command can
\* have (one, unless the command runs into an undefined erase or insert);
\* a result with out_of_range for the command is an exception thrown.
visit(doc, undo) ==
    CASE undo.type = "monostate" -> {Outcome(doc, undo)}
      [] undo.type = "undo_tiles_t" -> {apply_tiles(doc, undo)}
      [] undo.type = "undo_palette_num_t" -> {apply_palette_num(doc, undo)}
      [] undo.type = "undo_level_dimen_t" -> {apply_level_dimen(doc, undo)}
      [] undo.type = "undo_new_object_t" -> apply_new_object(doc, undo)
      [] undo.type = "undo_delete_object_t" -> apply_delete_object(doc, undo)
      [] undo.type = "undo_edit_object_t" -> {apply_edit_object(doc, undo)}
      [] undo.type = "undo_move_objects_t" -> {apply_move_objects(doc, undo)}

---------------------------------------------------------------------------
(* The project file.  A string is a sequence of bytes other than zero; a   *)
(* file is a sequence of bytes.  A path is held as write_file stores it,   *)
(* relative to the directory of the project file.                          *)

Byte == 0..255

\* The bytes of a sequence of byte sequences, one after the other.
RECURSIVE Flatten(_)
Flatten(qs) ==
    IF Len(qs) = 0 THEN <<>>
    ELSE IF Len(qs) = 1 THEN qs[1]
    ELSE Flatten(SubSeq(qs, 1, Len(qs) \div 2))
         \o Flatten(SubSeq(qs, Len(qs) \div 2 + 1, Len(qs)))

\* class_field_t
ClassField(name, type) == [name |-> name, type |-> type]

\* object_class_t; color is an rgb_t.
ObjectClass(name, macro, color, fields) ==
    [name |-> name, macro |-> macro, color |-> color, fields |-> fields]

\* chr_file_t as the file holds it: id, name, path.
ChrFile(id, name, path) == [id |-> id, name |-> name, path |-> path]

\* level_model_t as the file holds it.
Level(name, macro_name, chr_name, palette, chr, coll, objs) ==
    [name |-> name, macro_name |-> macro_name, chr_name |-> chr_name,
     palette |-> palette, chr_tiles |-> chr, collision_tiles |-> coll,
     objects |-> objs]

\* The members of model_t that write_file writes and read_file sets.
Project(metatile_size, collision_path, chr_files, num, color, classes, levels, mod, mod_since_save) ==
    [metatile_size |-> metatile_size, collision_path |-> collision_path,
     chr_files |-> chr_files, palette_num |-> num, color_tiles |-> color,
     object_classes |-> classes, levels |-> levels, modified |-> mod,
     modified_since_save |-> mod_since_save]

\* model_t::collision_scale
collision_scale(metatile_size) == Max({metatile_size, 1})

\* model_t::collision_div: the dimension divided by the scale, rounded up.
collision_div(metatile_size, d) ==
    Dimen((d.w + collision_scale(metatile_size) - 1)
              \div collision_scale(metatile_size),
          (d.h + collision_scale(metatile_size) - 1)
              \div collision_scale(metatile_size))

SAVE_VERSION == 1

\* "8x8Fab" and its terminating zero, the 7 bytes write_file writes first.
Magic == <<56, 120, 56, 70, 97, 98, 0>>

\* The lambdas of write_file.  The argument of write16 and write32 is
\* converted to the unsigned type of the parameter.
write_str(str) == str \o <<0>>
write8(i) == <<i % 256>>
write16(i) == <<i % 256, (i \div 256) % 256>>
write32(i) ==
    <<i % 256, (i \div 256) % 256, (i \div 65536) % 256,
      (i \div 16777216) % 256>>

\* The value of the field of the object, as a set: empty when the object
\* lacks the field.
FieldValues(obj, name) == {p[2] : p \in {q \in obj.fields : q[1] = name}}

\* The first class of the name, as a sequence of no or one class: the loop
\* over object_classes that breaks at the first match.
RECURSIVE ResolveClass(_, _)
ResolveClass(classes, oclass) ==
    IF classes = <<>> THEN <<>>
    ELSE IF Head(classes).name = oclass THEN <<Head(classes)>>
    ELSE ResolveClass(Tail(classes), oclass)

\* write_file, an object, writing nothing for a field the object lacks.
WriteObject_omits_absent(classes, obj) ==
    LET oc == ResolveClass(classes, obj.oclass)
        fields == IF oc = <<>> THEN <<>> ELSE oc[1].fields
    IN  write_str(obj.name) \o write_str(obj.oclass)
        \o write16(obj.position.x) \o write16(obj.position.y)
        \o Flatten([i \in DOMAIN fields |->
                       LET v == FieldValues(obj, fields[i].name)
                       IN  IF v = {} THEN <<>>
                           ELSE write_str(CHOOSE x \in v : TRUE)])

\* write_file, an object: name, class name, position, then one string per
\* field of the resolved class, a zero byte for a field the object lacks.
WriteObject(classes, obj) ==
    LET oc == ResolveClass(classes, obj.oclass)
        fields == IF oc = <<>> THEN <<>> ELSE oc[1].fields
    IN  write_str(obj.name) \o write_str(obj.oclass)
        \o write16(obj.position.x) \o write16(obj.position.y)
        \o Flatten([i \in DOMAIN fields |->
                       LET v == FieldValues(obj, fields[i].name)
                       IN  IF v = {} THEN write8(0)
                           ELSE write_str(CHOOSE x \in v : TRUE)])

\* write_file, an object class.
WriteClass(oc) ==
    write_str(oc.name) \o write_str(oc.macro)
    \o write8(oc.color.r) \o write8(oc.color.g) \o write8(oc.color.b)
    \o write8(Len(oc.fields))
    \o Flatten([i \in DOMAIN oc.fields |->
                   write_str(oc.fields[i].name)
                   \o write_str(oc.fields[i].type)])

\* write_file, a CHR source.
WriteChrFile(file) ==
    write16(file.id) \o write_str(file.name) \o write_str(file.path)

\* write_file, a level: the width and height are those of the graphics
\* grid, the collision cells those of the collision grid.
WriteLevel(classes, level) ==
    write_str(level.name) \o write_str(level.macro_name)
    \o write_str(level.chr_name) \o write8(level.palette)
    \o write16(level.chr_tiles.d.w) \o write16(level.chr_tiles.d.h)
    \o Flatten([i \in DOMAIN level.chr_tiles.m |->
                   write32(level.chr_tiles.m[i])])
    \o Flatten([i \in DOMAIN level.collision_tiles.m |->
                   write8(level.collision_tiles.m[i])])
    \o write16(Len(level.objects))
    \o Flatten([i \in DOMAIN level.objects |->
                   WriteObject(classes, level.objects[i])])

\* model_t::write_file: the bytes written.
write_file(p) ==
    Magic \o write8(SAVE_VERSION)
    \o write8(p.metatile_size) \o write_str(p.collision_path)
    \o write8(Len(p.chr_files))
    \o Flatten([i \in DOMAIN p.chr_files |-> WriteChrFile(p.chr_files[i])])
    \o write8(p.palette_num)
    \o Flatten([i \in DOMAIN p.color_tiles.m |-> write8(p.color_tiles.m[i])])
    \o write8(Len(p.object_classes))
    \o Flatten([i \in DOMAIN p.object_classes |->
                   WriteClass(p.object_classes[i])])
    \o write16(Len(p.levels))
    \o Flatten([i \in DOMAIN p.levels |->
                   WriteLevel(p.object_classes, p.levels[i])])

---------------------------------------------------------------------------
(* read_file.  The stream is the bytes, the position of the next byte and  *)
(* whether no read has failed; a read on a stream that has failed reads    *)
(* nothing.  A failed read is an exception in the code: what was assigned  *)
(* before it stays assigned, and nothing after it is.  The reads of a      *)
(* record are written as a chain, each operator taking what the reads      *)
(* before it gave.                                                         *)

Stream(buf, pos, ok) == [buf |-> buf, pos |-> pos, ok |-> ok]

\* The stream after a read and the value read.
Got(rd, v) == [rd |-> rd, v |-> v]

\* The value read, or what the variable held when the read threw.
Val(g, held) == IF g.rd.ok THEN g.v ELSE held

\* std::getc on each of n bytes: the stream n bytes further, failed when
\* fewer are left.
Advance(rd, n) ==
    Stream(rd.buf, Min({rd.pos + n, Len(rd.buf) + 1}),
           rd.ok /\ rd.pos + n - 1 <= Len(rd.buf))

\* The lambdas of read_file.
get8(rd, adjust) ==
    IF ~Advance(rd, 1).ok THEN Got(Advance(rd, 1), 0)
    ELSE Got(Advance(rd, 1),
             IF adjust /\ rd.buf[rd.pos] = 0 THEN 256 ELSE rd.buf[rd.pos])

get16(rd) ==
    IF ~Advance(rd, 2).ok THEN Got(Advance(rd, 2), 0)
    ELSE Got(Advance(rd, 2), rd.buf[rd.pos] + 256 * rd.buf[rd.pos + 1])

get32(rd) ==
    IF ~Advance(rd, 4).ok THEN Got(Advance(rd, 4), 0)
    ELSE Got(Advance(rd, 4),
             rd.buf[rd.pos] + 256 * rd.buf[rd.pos + 1]
             + 65536 * rd.buf[rd.pos + 2] + 16777216 * rd.buf[rd.pos + 3])

\* get_str: the bytes up to the next zero byte; g is the byte just read.
RECURSIVE get_str_from(_, _)
get_str_next(g, str) ==
    IF ~g.rd.ok \/ g.v = 0 THEN Got(g.rd, str)
    ELSE get_str_from(g.rd, Append(str, g.v))

get_str_from(rd, str) == get_str_next(get8(rd, FALSE), str)

get_str(rd) == get_str_from(rd, <<>>)

\* get_path: the string, resolved against the directory of the file.
get_path(rd) == get_str(rd)

\* The loops "for(data : tiles) data = get32()" and "= get8()": the cells
\* of m from the i-th on; g is the value just read.
RECURSIVE ReadTiles32(_, _, _)
ReadTiles32Next(g, m, i) ==
    IF ~g.rd.ok THEN Got(g.rd, m)
    ELSE ReadTiles32(g.rd, [m EXCEPT ![i] = g.v], i + 1)

ReadTiles32(rd, m, i) ==
    IF i > Len(m) THEN Got(rd, m) ELSE ReadTiles32Next(get32(rd), m, i)

RECURSIVE ReadTiles8(_, _, _)
ReadTiles8Next(g, m, i) ==
    IF ~g.rd.ok THEN Got(g.rd, m)
    ELSE ReadTiles8(g.rd, [m EXCEPT ![i] = g.v], i + 1)

ReadTiles8(rd, m, i) ==
    IF i > Len(m) THEN Got(rd, m) ELSE ReadTiles8Next(get8(rd, FALSE), m, i)

\* The values read one after the other for the members of a record: the
\* stream and, for each read made, the value as a one-element sequence, or
\* the empty sequence when the read threw.
Frame(rd) == [rd |-> rd, vs |-> <<>>]

Push(f, g) ==
    [rd |-> g.rd, vs |-> Append(f.vs, IF g.rd.ok THEN <<g.v>> ELSE <<>>)]

Read8(f) == Push(f, get8(f.rd, FALSE))
Read8Adjust(f) == Push(f, get8(f.rd, TRUE))
Read16(f) == Push(f, get16(f.rd))
ReadStr(f) == Push(f, get_str(f.rd))

\* The i-th value read, or what the member held when the read threw.
Opt(f, i, held) == IF f.vs[i] = <<>> THEN held ELSE f.vs[i][1]

\* The loops "for(i < n) { list.emplace_back(); ... }" of read_file: n
\* elements of a kind read after the elements of list, while no read fails.
RECURSIVE ReadList(_, _, _, _, _)

\* A CHR source: id, name, path.
ChrFileOf(f) ==
    Got(f.rd, ChrFile(Opt(f, 1, 0), Opt(f, 2, <<>>), Opt(f, 3, <<>>)))

ReadChrFile(rd) == ChrFileOf(ReadStr(ReadStr(Read16(Frame(rd)))))

\* A field of a class: name, type; the type of a new field is "U".
ClassFieldOf(f) ==
    Got(f.rd, ClassField(Opt(f, 1, <<>>), Opt(f, 2, <<85>>)))

ReadClassField(rd) == ClassFieldOf(ReadStr(ReadStr(Frame(rd))))

\* An object class: name, macro, colour, field count, then the fields;
\* a new class is white and has no fields.
ClassWith(f, fields) ==
    Got(fields.rd,
        ObjectClass(Opt(f, 1, <<>>), Opt(f, 2, <<>>),
                    [r |-> Opt(f, 3, 255), g |-> Opt(f, 4, 255),
                     b |-> Opt(f, 5, 255)],
                    fields.v))

ClassOf(f) ==
    ClassWith(f, ReadList("field", f.rd, <<>>, Opt(f, 6, 0), <<>>))

ReadClass(rd) ==
    ClassOf(Read8(Read8(Read8(Read8(ReadStr(ReadStr(Frame(rd))))))))

\* The fields of an object: obj.fields.emplace(field.name, get_str()) for
\* each field of the resolved class; emplace keeps the value the map
\* already holds for a name.  str is the string just read.
RECURSIVE ReadObjectFields(_, _, _)
ReadObjectFieldsNext(str, fields, classFields) ==
    IF ~str.rd.ok THEN Got(str.rd, fields)
    ELSE ReadObjectFields(
             str.rd,
             IF \E p \in fields : p[1] = Head(classFields).name THEN fields
             ELSE fields \cup {<<Head(classFields).name, str.v>>},
             Tail(classFields))

ReadObjectFields(rd, fields, classFields) ==
    IF classFields = <<>> THEN Got(rd, fields)
    ELSE ReadObjectFieldsNext(get_str(rd), fields, classFields)

\* The value get16 returned after static_cast<std::int32_t>.
ToInt32(u16) == u16

\* The fields of the class an object names, none when no class has the
\* name.
FieldsOfClass(classes, oclass) ==
    IF ResolveClass(classes, oclass) = <<>> THEN <<>>
    ELSE ResolveClass(classes, oclass)[1].fields

\* An object: name, class name, x, y, then the fields of its class.
ObjectWith(f, fields) ==
    Got(fields.rd,
        [position |-> Coord(ToInt32(Opt(f, 3, 0)), ToInt32(Opt(f, 4, 0))),
         name |-> Opt(f, 1, <<>>), oclass |-> Opt(f, 2, <<>>),
         fields |-> fields.v])

ObjectOf(f, classes) ==
    ObjectWith(f, IF ~f.rd.ok THEN Got(f.rd, {})
                  ELSE ReadObjectFields(f.rd, {},
                                        FieldsOfClass(classes, f.vs[2][1])))

ReadObject(rd, classes) ==
    ObjectOf(Read16(Read16(ReadStr(ReadStr(Frame(rd))))), classes)

\* level_model_t's constructor: the name "level", no macro and CHR-source
\* name, palette 0, both grids resized to {24, 24} (here to the model's
\* largest dimension) with value-initialised cells, no objects.
DefaultLevel ==
    Level(<<108, 101, 118, 101, 108>>, <<>>, <<>>, 0,
          GridNew(Dimen(MaxW, MaxH), 0), GridNew(Dimen(MaxW, MaxH), 0), <<>>)

\* A level: the names, the palette index, width and height; then
\* level.resize(dimen, collision_div(dimen)), the cells of the graphics
\* grid, the cells of the collision grid, the object count and the objects.
LevelDimenRead(f) == Dimen(f.vs[5][1], f.vs[6][1])

LevelResized(f, metatile_size) ==
    IF ~f.rd.ok
    THEN [f |-> f, chr |-> DefaultLevel.chr_tiles,
          coll |-> DefaultLevel.collision_tiles]
    ELSE [f |-> f,
          chr |-> GridResize(DefaultLevel.chr_tiles, LevelDimenRead(f), 0),
          coll |-> GridResize(DefaultLevel.collision_tiles,
                              collision_div(metatile_size,
                                            LevelDimenRead(f)), 0)]

LevelChr(lv) ==
    [lv EXCEPT !.chr = Got(IF lv.f.rd.ok
                           THEN ReadTiles32(lv.f.rd, lv.chr.m, 1)
                           ELSE Got(lv.f.rd, lv.chr.m),
                           lv.chr.d)]

LevelColl(lv) ==
    [lv EXCEPT !.coll = Got(IF lv.chr.rd.rd.ok
                            THEN ReadTiles8(lv.chr.rd.rd, lv.coll.m, 1)
                            ELSE Got(lv.chr.rd.rd, lv.coll.m),
                            lv.coll.d)]

LevelCount(lv) == [lv EXCEPT !.f = Frame(get16(lv.coll.rd.rd))]

LevelObjects(lv, classes) ==
    [lv EXCEPT !.f = ReadList("object", lv.f.rd.rd, <<>>,
                              Val(lv.f.rd, 0), classes)]

LevelOf(f, lv) ==
    Got(lv.f.rd,
        Level(Opt(f, 1, DefaultLevel.name),
              Opt(f, 2, DefaultLevel.macro_name),
              Opt(f, 3, DefaultLevel.chr_name),
              Opt(f, 4, DefaultLevel.palette),
              Grid(lv.chr.v, lv.chr.rd.v), Grid(lv.coll.v, lv.coll.rd.v),
              lv.f.v))

LevelRead(f, ctx) ==
    LevelOf(f, LevelObjects(LevelCount(LevelColl(LevelChr(
                   LevelResized(f, ctx.metatile_size)))), ctx.classes))

ReadLevel(rd, ctx) ==
    LevelRead(Read16(Read16(Read8(ReadStr(ReadStr(ReadStr(Frame(rd))))))),
              ctx)

\* One element of a kind; ctx is what the kind needs of what was read
\* before: the classes for an object; the classes and the scale for a
\* level.
ReadOne(kind, rd, ctx) ==
    CASE kind = "chr" -> ReadChrFile(rd)
      [] kind = "field" -> ReadClassField(rd)
      [] kind = "class" -> ReadClass(rd)
      [] kind = "object" -> ReadObject(rd, ctx)
      [] kind = "level" -> ReadLevel(rd, ctx)

ReadListNext(kind, g, list, n, ctx) ==
    ReadList(kind, g.rd, Append(list, g.v), n - 1, ctx)

ReadListRest(kind, g, n, ctx) == ReadList(kind, g.rd, g.v, n, ctx)

\* A long list is read sixteen entries at a time, which keeps the
\* evaluation of the recursion shallow.
ReadList(kind, rd, list, n, ctx) ==
    IF n = 0 \/ ~rd.ok THEN Got(rd, list)
    ELSE IF n > 16
    THEN ReadListRest(kind, ReadList(kind, rd, list, 16, ctx), n - 16, ctx)
    ELSE ReadListNext(kind, ReadOne(kind, rd, ctx), list, n, ctx)

\* buffer[7] of read_file, a char: the version byte as the build's char
\* holds it, negative from 128 on where char is signed.
AsChar(byte, char_signed) ==
    IF char_signed /\ byte >= 128 THEN byte - 256 ELSE byte

\* What a call of read_file gives: the project after it, the message of
\* the exception it threw ("" when it returned) and the position of the
\* stream.
ReadResult(p, threw, pos) == [project |-> p, threw |-> threw, pos |-> pos]

\* model_t::read_file after the magic number and the version, in the order
\* of the code: metatile_size, collision_path and the CHR count; the CHR
\* sources; the palette count; the palette bytes; the class count; the
\* classes; the level count; the levels.  b holds what each step read.
BodyHead(buf) ==
    [hd |-> Read8Adjust(ReadStr(Read8(Frame(Stream(buf, 9, TRUE)))))]

BodyChrFiles(b) ==
    b @@ [chr_files |-> ReadList("chr", b.hd.rd, <<>>, Opt(b.hd, 3, 0),
                                 <<>>)]

BodyNum(b) == b @@ [num |-> get8(b.chr_files.rd, TRUE)]

BodyColor(b, held) ==
    b @@ [color |-> IF b.num.rd.ok THEN ReadTiles8(b.num.rd, held, 1)
                    ELSE Got(b.num.rd, held)]

BodyNumClasses(b) == b @@ [num_oc |-> get8(b.color.rd, TRUE)]

BodyClasses(b) ==
    b @@ [classes |-> ReadList("class", b.num_oc.rd, <<>>,
                               Val(b.num_oc, 0), <<>>)]

BodyNumLevels(b) == b @@ [num_levels |-> get16(b.classes.rd)]

BodyLevels(b, held) ==
    b @@ [levels |->
             ReadList("level", b.num_levels.rd, <<>>, Val(b.num_levels, 0),
                      [classes |-> b.classes.v,
                       metatile_size |-> Opt(b.hd, 1, held)])]

\* The project a call leaves: each member holds what was read for it, or
\* what it held when its read was not reached; the lists are cleared once
\* their count is read; the dirty flags are cleared at the end.
BodyResult(p, b) ==
    ReadResult(
        Project(Opt(b.hd, 1, p.metatile_size),
                Opt(b.hd, 2, p.collision_path),
                IF b.hd.rd.ok THEN b.chr_files.v ELSE p.chr_files,
                Val(b.num, p.palette_num),
                Grid(p.color_tiles.d, b.color.v),
                IF b.num_oc.rd.ok THEN b.classes.v ELSE p.object_classes,
                IF b.num_levels.rd.ok THEN b.levels.v ELSE p.levels,
                IF b.levels.rd.ok THEN FALSE ELSE p.modified,
                IF b.levels.rd.ok THEN FALSE ELSE p.modified_since_save),
        IF b.levels.rd.ok THEN "" ELSE "Unable to read value.",
        b.levels.rd.pos)

read_body(p, buf) ==
    BodyResult(p,
               BodyLevels(BodyNumLevels(BodyClasses(BodyNumClasses(
                   BodyColor(BodyNum(BodyChrFiles(BodyHead(buf))),
                             p.color_tiles.m)))),
                   p.metatile_size))

\* model_t::read_file
read_file(p, buf, char_signed) ==
    IF Len(buf) < 8
    THEN ReadResult(p, "Unable to read magic number.", Len(buf) + 1)
    ELSE IF SubSeq(buf, 1, 7) # Magic
    THEN ReadResult(p, "Incorrect magic number.", 9)
    ELSE IF AsChar(buf[8], char_signed) > SAVE_VERSION
    THEN ReadResult(p, "File is from a newer version of XFab.", 9)
    ELSE read_body(p, buf)

---------------------------------------------------------------------------
(* The state after construction.                                           *)

\* example_palette of color_layer_t's constructor.
example_palette ==
    <<17, 43, 57, 19, 33, 59, 21, 35, 49, 23, 37, 51,
      2, 20, 38, 4, 22, 40, 6, 24, 42, 8, 26, 44, 15>>

\* color_layer_t's constructor: every cell 0x0F, row 0 the example palette.
InitColorTiles ==
    Grid(Dimen(ColorW, ColorH),
         [i \in 1..(ColorW * ColorH) |->
             IF i <= ColorW THEN example_palette[i] ELSE 15])

\* level_model_t's constructor: resize({24, 24}, {24, 24}), here to the
\* model's largest dimension; the cells are value-initialised.
LevelDimen == Dimen(MaxW, MaxH)

\* model_t's constructor: palette.num = 1, one level, no objects.
InitDoc ==
    Doc(1, InitColorTiles, GridNew(LevelDimen, 0), GridNew(LevelDimen, 0),
        <<>>)

\* model_t's constructor, the members the project file holds: the CHR
\* source {0, "chr"}, the class "object" with no fields, one level whose
\* CHR-source name is "chr"; metatile_size 0, no collision path, not
\* modified.
DefaultProject ==
    Project(0, <<>>, <<ChrFile(0, <<99, 104, 114>>, <<>>)>>, 1,
            InitColorTiles,
            <<ObjectClass(<<111, 98, 106, 101, 99, 116>>, <<>>,
                          [r |-> 255, g |-> 255, b |-> 255], <<>>)>>,
            <<[DefaultLevel EXCEPT !.chr_name = <<99, 104, 114>>]>>,
            FALSE, FALSE)

UNDO == "UNDO"
REDO == "REDO"

\* !U of undo_history_t::undo<U>
Other(U) == IF U = UNDO THEN REDO ELSE UNDO

\* The bookkeeping of a run: the single commands applied (steps), the
\* pushes, the undo() and redo() calls and the pushes made after the first of
\* them (late); and for a session of n edits followed by undos and redos,
\* where it stands and what the document and the undo stack were after the
\* edits; and for the project file, what has been done with it (io) and
\* the project that was written to it.
InitMon ==
    [steps |-> 0, pushes |-> 0, calls |-> 0, late |-> 0,
     phase |-> "edit", n |-> 0, u |-> 0, r |-> 0, ordered |-> TRUE,
     docN |-> InitDoc, undoN |-> <<>>,
     io |-> "new", saved |-> DefaultProject,
     loads |-> 0, source |-> [kind |-> "no path", threw |-> ""],
     selects |-> 0, ops |-> 0, oob |-> FALSE]

\* chr_file_t's members after construction: chr = {}, no indices.
NewChrData == [chr |-> [i \in 1..(16 * MaxChrTiles) |-> 0], indices |-> <<>>]

\* A tile_layer_t: format() names its class (LAYER_COLOR, LAYER_CHR,
\* LAYER_COLLISION); num is what color_layer_t::num refers to, chr_id and
\* active what chr_layer_t::chr_id and chr_layer_t::active refer to.
TileLayer(format, picker_selector, canvas_selector, tiles, num, chr_id, active) ==
    [format |-> format, picker_selector |-> picker_selector,
     canvas_selector |-> canvas_selector, tiles |-> tiles, num |-> num,
     chr_id |-> chr_id, active |-> active]

\* tile_layer_t(picker_dimen, canvas_dimen): both selectors resized, the
\* tiles value-initialised.
NewTileLayer ==
    TileLayer("LAYER_COLLISION",
              select_resize(SelMapNew, Dimen(PickerW, PickerH)),
              select_resize(SelMapNew, Dimen(CanvasW, CanvasH)),
              GridNew(Dimen(CanvasW, CanvasH), 0), 1, 0, 0)

\* level_model_t: the two tile layers of a level.
LevelModel(chr_layer, collision_layer) ==
    [chr_layer |-> chr_layer, collision_layer |-> collision_layer]

\* tile_layer_t::canvas_resize
canvas_resize(layer, d) ==
    [layer EXCEPT !.canvas_selector = select_resize(@, d),
                  !.tiles = GridResize(@, d, 0)]

\* level_model_t::resize(dimen, collision_dimen)
level_resize(lv, dimen, collision_dimen) ==
    LevelModel(canvas_resize(lv.chr_layer, dimen),
               canvas_resize(lv.collision_layer, collision_dimen))

\* chr_layer_t(chr_id, active) and collision_layer_t(): the picker and the
\* canvas of the constructor; active is the attribute the editor has
\* chosen.
chr_layer_t(chr_id, active) ==
    TileLayer("LAYER_CHR",
              select_resize(SelMapNew, Dimen(PickerW, PickerH)),
              select_resize(SelMapNew, Dimen(2 * LevelW, 2 * LevelH)),
              GridNew(Dimen(2 * LevelW, 2 * LevelH), 0), 1, chr_id, active)

collision_layer_t ==
    TileLayer("LAYER_COLLISION",
              select_resize(SelMapNew, Dimen(PickerW, PickerH)),
              select_resize(SelMapNew, Dimen(LevelW - 1, LevelH - 1)),
              GridNew(Dimen(LevelW - 1, LevelH - 1), 0), 1, 0, 0)

\* level_model_t(): resize({ 24, 24 }, { 24, 24 }) on the layers
\* constructed; LevelW x LevelH stands for 24 x 24.
level_model_t ==
    level_resize(LevelModel(chr_layer_t(0, 1), collision_layer_t),
                 Dimen(LevelW, LevelH), Dimen(LevelW, LevelH))

InitOthers ==
    /\ level_model = level_model_t
    /\ m_selection = SelMapNew.sel
    /\ m_select_rect = SelMapNew.rect
    /\ palette_num = InitDoc.palette_num
    /\ color_tiles = InitDoc.color_tiles
    /\ chr_tiles = InitDoc.chr_tiles
    /\ collision_tiles = InitDoc.collision_tiles
    /\ objects = InitDoc.objects
    /\ modified = FALSE
    /\ modified_since_save = FALSE
    /\ history = [UNDO |-> <<>>, REDO |-> <<>>]
    /\ last = [op |-> "init"]
    /\ ret = NoOp
    /\ pre = InitDoc
    /\ pre_history = [UNDO |-> <<>>, REDO |-> <<>>]
    /\ fp = <<>>
    /\ chr_file = NewChrData
    /\ chr_bitmaps = <<>>
    /\ mon = InitMon

InitEditor ==
    /\ InitOthers
    /\ tile_layer = NewTileLayer

InitCommon ==
    /\ InitEditor
    /\ project = DefaultProject

---------------------------------------------------------------------------
(* SelSpec: the calls of one select_map_t.                                 *)

TheSelMap == SelMap(m_selection, m_select_rect)

\* The dimensions, coordinates and rectangles the calls are made with:
\* coordinates and rectangles reach one cell past the largest grid.
SelDimens == {Dimen(w, h) : w \in 0..MaxW, h \in 0..MaxH}
SelCoords == {Coord(x, y) : x \in -1..MaxW, y \in -1..MaxH}
SelRects ==
    {Rect(c, Dimen(w, h)) : c \in SelCoords, w \in 0..(MaxW + 1),
                            h \in 0..(MaxH + 1)}

SelStep(sm, call) ==
    /\ m_selection' = sm.sel
    /\ m_select_rect' = sm.rect
    /\ last' = call
    /\ UNCHANGED <<docVars, dirtyVars, history, ret, pre, pre_history, mon,
                   fileVars, chrVars, tile_layer, level_model>>

SelectAll ==
    \E b \in BOOLEAN :
        SelStep(select_all(TheSelMap, b), [op |-> "select_all", select |-> b])

SelectInvert ==
    SelStep(select_invert(TheSelMap), [op |-> "select_invert"])

SelectCoord ==
    \E c \in SelCoords, b \in BOOLEAN :
        SelStep(select_coord(TheSelMap, c, b),
                [op |-> "select_coord", select |-> b])

SelectRect ==
    \E r \in SelRects, b \in BOOLEAN :
        SelStep(select_rect(TheSelMap, r, b),
                [op |-> "select_rect", select |-> b])

SelectResize ==
    \E d \in SelDimens :
        SelStep(select_resize(TheSelMap, d), [op |-> "resize"])

SelInit == InitCommon

SelNext ==
    \/ SelectAll
    \/ SelectInvert
    \/ SelectCoord
    \/ SelectRect
    \/ SelectResize

SelSpec == SelInit /\ [][SelNext]_vars

\* The smallest rectangle holding every selected cell, from the cells.
BoundingRect(sel) ==
    LET S == CellsWith(sel, 1)
    IN  IF S = {} THEN EmptyRect
        ELSE rect_from_2_coords(
                 Coord(Min({c.x : c \in S}), Min({c.y : c \in S})),
                 Coord(Max({c.x : c \in S}), Max({c.y : c \in S})))

\* C1: after any sequence of select_all, select_invert, select(coord),
\* select(rect) and resize, for every grid dimension, the cached rectangle
\* is empty exactly if no cell is selected, and otherwise is the smallest
\* rectangle holding every selected cell.
C1_CachedRectIsBoundingRect ==
    /\ ~RectBool(m_select_rect) <=> CellsWith(m_selection, 1) = {}
    /\ RectBool(m_select_rect) => m_select_rect = BoundingRect(m_selection)

\* The same for the grids that have at least one cell in either direction.
C1_HoldsOffTheEmptyGrid ==
    (m_selection.d.w > 0 \/ m_selection.d.h > 0) => C1_CachedRectIsBoundingRect

---------------------------------------------------------------------------
(* model_t::undo(cmd) and the commands it is called with.                  *)

\* modify() setting modified_since_save only.
modify_since_save_only ==
    modified' = modified /\ modified_since_save' = TRUE

\* model_t::modify
modify == modified' = TRUE /\ modified_since_save' = TRUE

SetDoc(doc) ==
    /\ palette_num' = doc.palette_num
    /\ color_tiles' = doc.color_tiles
    /\ chr_tiles' = doc.chr_tiles
    /\ collision_tiles' = doc.collision_tiles
    /\ objects' = doc.objects

\* model_t::undo(undo), called on its own: modify(), then the command is
\* applied and its inverse returned.
ModelUndo(cmd) ==
    /\ mon.steps < MaxSteps
    /\ modify
    /\ \E o \in visit(TheDoc, cmd) :
          /\ SetDoc(o.doc)
          /\ ret' = o.ret
    /\ pre' = TheDoc
    /\ last' = [op |-> "undo", cmd |-> cmd]
    /\ mon' = [mon EXCEPT !.steps = mon.steps + 1]
    /\ UNCHANGED <<selVars, history, pre_history, fileVars, chrVars,
                   tile_layer, level_model>>

\* The values written to tile cells.
TileVals == {0, 1}

\* The non-empty rectangles inside the dimension d.
RectsIn(d) ==
    {r \in {Rect(Coord(x, y), Dimen(w, h)) :
               x \in 0..(d.w - 1), y \in 0..(d.h - 1),
               w \in 1..d.w, h \in 1..d.h} :
        r.c.x + r.d.w <= d.w /\ r.c.y + r.d.h <= d.h}

\* The tile-region commands whose rectangle lies inside the layer's canvas,
\* with one value per cell.
TileCmds(doc) ==
    UNION {UNION {{undo_tiles_t(l, r, t) :
                      t \in [1..(r.d.w * r.d.h) -> TileVals]} :
                  r \in RectsIn(canvas_dimen(doc, l))} :
           l \in Layers}

\* The palette counts: at least one row, at most the rows of the grid.
PaletteCmds == {undo_palette_num_t(n) : n \in 1..ColorH}

\* The layer-resize commands: a grid of any dimension, also without cells.
DimenCmds ==
    UNION {{undo_level_dimen_t(Grid(d, m)) :
               m \in [1..(d.w * d.h) -> TileVals]} :
           d \in SelDimens}

ApplyTiles == \E cmd \in TileCmds(TheDoc) : ModelUndo(cmd)
ApplyPaletteNum == \E cmd \in PaletteCmds : ModelUndo(cmd)
ApplyLevelDimen == \E cmd \in DimenCmds : ModelUndo(cmd)

TileInit == InitCommon

TileNext ==
    \/ ApplyTiles
    \/ ApplyPaletteNum
    \/ ApplyLevelDimen

\* TileSpec: runs of tile-region, palette-count and layer-resize commands.
TileSpec == TileInit /\ [][TileNext]_vars

(* The objects and the object commands. *)
Object(position, name, oclass, fields) ==
    [position |-> position, name |-> name, oclass |-> oclass,
     fields |-> fields]

PosVals == {Coord(0, 0), Coord(-1, 2)}

\* The objects that commands carry; fields is the map as a set of pairs.
ObjPool ==
    {Object(Coord(0, 0), "a", "object", {}),
     Object(Coord(-1, 2), "b", "object", {<<"hp", "1">>}),
     Object(Coord(0, 0), "c", "", {})}

\* The sequences of length n over S.
SeqsOf(S, n) == [1..n -> S]

Distinct(q) == \A i, j \in DOMAIN q : i # j => q[i] # q[j]

\* The insert commands: distinct valid indices, in any order.
NewObjectCmds(doc) ==
    UNION {{undo_new_object_t(q) :
               q \in {x \in SeqsOf(0..(Len(doc.objects) - 1), n) : Distinct(x)}} :
           n \in 0..Len(doc.objects)}

\* Whether every insert of the pairs is at or before the end of the deque
\* at the time it is made.
RECURSIVE InsertsValid(_, _)
InsertsValid(len, pairs) ==
    \/ pairs = <<>>
    \/ /\ Head(pairs).first <= len
       /\ InsertsValid(len + 1, Tail(pairs))

\* The delete commands: the level stays within MaxObjs objects and every
\* insert is valid when it is made; the order of the pairs is free.
DeleteObjectCmds(doc) ==
    UNION {{undo_delete_object_t(q) :
               q \in {x \in SeqsOf({Pair(i, o) : i \in 0..(MaxObjs - 1),
                                                o \in ObjPool}, n) :
                         InsertsValid(Len(doc.objects), x)}} :
           n \in 0..(MaxObjs - Len(doc.objects))}

EditObjectCmds(doc) ==
    {undo_edit_object_t(i, o) : i \in 0..(Len(doc.objects) - 1), o \in ObjPool}

\* The move commands: up to two valid indices, which may repeat, and as
\* many positions.
MoveObjectsCmds(doc) ==
    UNION {{undo_move_objects_t(q, p) :
               q \in SeqsOf(0..(Len(doc.objects) - 1), n),
               p \in SeqsOf(PosVals, n)} :
           n \in 0..2}

ApplyNewObject == \E cmd \in NewObjectCmds(TheDoc) : ModelUndo(cmd)
ApplyDeleteObject == \E cmd \in DeleteObjectCmds(TheDoc) : ModelUndo(cmd)
ApplyEditObject == \E cmd \in EditObjectCmds(TheDoc) : ModelUndo(cmd)
ApplyMoveObjects == \E cmd \in MoveObjectsCmds(TheDoc) : ModelUndo(cmd)

ObjInit == InitCommon

ObjNext ==
    \/ ApplyNewObject
    \/ ApplyDeleteObject
    \/ ApplyEditObject
    \/ ApplyMoveObjects

\* ObjSpec: runs of object commands.
ObjSpec == ObjInit /\ [][ObjNext]_vars

---------------------------------------------------------------------------
(* The contracts of the single commands.                                   *)

\* The last call was model_t::undo with a command of type t.
LastCmdIs(t) == last.op = "undo" /\ last.cmd.type = t

RectInside(r, d) ==
    /\ RectBool(r)
    /\ r.c.x >= 0 /\ r.c.y >= 0
    /\ r.c.x + r.d.w <= d.w /\ r.c.y + r.d.h <= d.h

\* The place of cell c in the row-major tile list of rectangle r.
RowMajor(r, c) == (c.y - r.c.y) * r.d.w + (c.x - r.c.x) + 1

\* Applying the returned command gives back the document as it was.
ReturnedRestores == \A o \in visit(TheDoc, ret) : o.doc = pre

\* C2: a tile-region command whose rectangle lies inside the layer's canvas,
\* with one tile per cell, writes the listed values to exactly the cells of
\* the rectangle in row-major order, leaves every other cell (and the rest
\* of the document) unchanged and returns a tile-region command with the
\* same rectangle holding the values before the edit; applying the returned
\* command restores the grid.
C2_TileEditWritesAndInverts ==
    (/\ LastCmdIs("undo_tiles_t")
     /\ RectInside(last.cmd.rect, canvas_dimen(pre, last.cmd.layer))
     /\ Len(last.cmd.tiles) = last.cmd.rect.d.w * last.cmd.rect.d.h)
    => LET cmd == last.cmd
           r == cmd.rect
           g0 == LayerTiles(pre, cmd.layer)
           g1 == LayerTiles(TheDoc, cmd.layer)
       IN  /\ g1.d = g0.d
           /\ \A c \in RectCells(to_rect(g0.d)) :
                 GridGet(g1, c) = IF c \in RectCells(r)
                                  THEN cmd.tiles[RowMajor(r, c)]
                                  ELSE GridGet(g0, c)
           /\ WithLayerTiles(TheDoc, cmd.layer, g0) = pre
           /\ ret.type = "undo_tiles_t"
           /\ ret.layer = cmd.layer
           /\ ret.rect = r
           /\ Len(ret.tiles) = r.d.w * r.d.h
           /\ \A c \in RectCells(r) : ret.tiles[RowMajor(r, c)] = GridGet(g0, c)
           /\ ReturnedRestores

\* A tile-region command over two or more cells, but not the whole grid,
\* has changed the grid.
C2_Witness ==
    /\ LastCmdIs("undo_tiles_t")
    /\ last.cmd.rect.d.w * last.cmd.rect.d.h >= 2
    /\ last.cmd.rect # to_rect(LayerTiles(pre, last.cmd.layer).d)
    /\ TheDoc # pre
    /\ pre # InitDoc

\* The sequence objs without the elements at the indices of the set I.
Without(objs, I) ==
    LET keep == SelectSeq([k \in 1..Len(objs) |-> k - 1], LAMBDA k : k \notin I)
    IN  [j \in 1..Len(keep) |-> at(objs, keep[j])]

Range(q) == {q[i] : i \in DOMAIN q}

Descending(q) == \A i, j \in DOMAIN q : i < j => q[i] > q[j]

ValidIndices(q, objs) == \A i \in DOMAIN q : q[i] \in 0..(Len(objs) - 1)

\* C3: an insert command listing distinct valid indices from highest to
\* lowest removes exactly the objects at those indices, keeping the order of
\* the others, and returns a delete command holding each removed (index,
\* object) pair; applying that delete command gives back the list and
\* returns the insert command.
C3_InsertDeleteAreInverses ==
    (/\ LastCmdIs("undo_new_object_t")
     /\ ValidIndices(last.cmd.indices, pre.objects)
     /\ Descending(last.cmd.indices))
    => /\ objects = Without(pre.objects, Range(last.cmd.indices))
       /\ [TheDoc EXCEPT !.objects = pre.objects] = pre
       /\ ret.type = "undo_delete_object_t"
       /\ Len(ret.objects) = Len(last.cmd.indices)
       /\ Range(ret.objects) =
              {Pair(i, at(pre.objects, i)) : i \in Range(last.cmd.indices)}
       /\ \A o \in visit(TheDoc, ret) : o.doc = pre /\ o.ret = last.cmd

\* Two of three objects were removed by an insert command.
C3_Witness ==
    /\ LastCmdIs("undo_new_object_t")
    /\ Descending(last.cmd.indices)
    /\ Len(last.cmd.indices) = 2
    /\ Len(pre.objects) = 3
    /\ Len(objects) = 1

\* The result of inserting the pairs from the lowest index to the highest.
RECURSIVE InsertAscending(_, _)
InsertAscending(objs, pairs) ==
    IF pairs = {} THEN objs
    ELSE LET p == CHOOSE x \in pairs : \A y \in pairs : x.first <= y.first
         IN  InsertAscending(InsertAt(objs, p.first, p.second), pairs \ {p})

\* C4: whatever the order of the command's list, an insert command removes
\* exactly the objects that were at the listed indices and records the same
\* ones, and a delete command inserts from the lowest index to the highest.
C4_AnyOrderOfIndices ==
    /\ (/\ LastCmdIs("undo_new_object_t")
        /\ ValidIndices(last.cmd.indices, pre.objects)
        /\ Distinct(last.cmd.indices))
       => /\ objects = Without(pre.objects, Range(last.cmd.indices))
          /\ Range(ret.objects) =
                 {Pair(i, at(pre.objects, i)) : i \in Range(last.cmd.indices)}
    /\ (/\ LastCmdIs("undo_delete_object_t")
        /\ Distinct([i \in DOMAIN last.cmd.objects |-> last.cmd.objects[i].first])
        /\ \A p \in Range(last.cmd.objects) :
              p.first <= Len(pre.objects) + Len(last.cmd.objects) - 1)
       => objects = InsertAscending(pre.objects, Range(last.cmd.objects))

\* C5: a layer-resize command installs its grid as the whole tile grid of
\* the graphics layer and returns a layer-resize command holding the whole
\* prior grid; applying the returned command restores the prior grid, also
\* when the dimensions differ.
C5_LayerResizeSwapsWholeGrid ==
    LastCmdIs("undo_level_dimen_t")
    => /\ chr_tiles = last.cmd.tiles
       /\ [TheDoc EXCEPT !.chr_tiles = pre.chr_tiles] = pre
       /\ ret = undo_level_dimen_t(pre.chr_tiles)
       /\ ReturnedRestores
       /\ \A o \in visit(TheDoc, ret) : o.ret = last.cmd

\* A layer resize between two grids of different dimensions, both with
\* cells, the prior one not the initial one.
C5_Witness ==
    /\ LastCmdIs("undo_level_dimen_t")
    /\ chr_tiles.d # pre.chr_tiles.d
    /\ DimenBool(chr_tiles.d)
    /\ DimenBool(pre.chr_tiles.d)
    /\ pre.chr_tiles # InitDoc.chr_tiles

\* What a move command leaves alone: the number of objects, everything of an
\* object but its position, every object not listed, the rest of the
\* document.
MoveFrame ==
    /\ Len(objects) = Len(pre.objects)
    /\ \A k \in DOMAIN objects :
          /\ [objects[k] EXCEPT !.position = pre.objects[k].position]
                 = pre.objects[k]
          /\ (k - 1) \notin Range(last.cmd.indices) => objects[k] = pre.objects[k]
    /\ [TheDoc EXCEPT !.objects = pre.objects] = pre

\* The returned move command: the same indices, the prior positions.
MoveReturn ==
    /\ ret = undo_move_objects_t(
                 last.cmd.indices,
                 [i \in DOMAIN last.cmd.indices |->
                     at(pre.objects, last.cmd.indices[i]).position])
    /\ ReturnedRestores

MoveWellFormed ==
    /\ LastCmdIs("undo_move_objects_t")
    /\ Len(last.cmd.indices) = Len(last.cmd.positions)
    /\ ValidIndices(last.cmd.indices, pre.objects)

\* C6 as stated: for every move command with as many positions as indices
\* and valid indices, the object at indices[i] is at positions[i] for every
\* i, nothing else changes, the returned command holds the prior positions
\* and restores them.
C6_MoveSetsEveryListedPosition ==
    MoveWellFormed
    => /\ \A i \in DOMAIN last.cmd.indices :
             at(objects, last.cmd.indices[i]).position = last.cmd.positions[i]
       /\ MoveFrame
       /\ MoveReturn

\* C6 as amended: the object at indices[i] is at positions[i] for every i
\* that is the last place its index is listed at (so for every i when the
\* indices are distinct); the frame and the returned command are as stated.
C6_MoveLastListedPositionWins ==
    MoveWellFormed
    => /\ \A i \in DOMAIN last.cmd.indices :
             (\A j \in DOMAIN last.cmd.indices :
                  last.cmd.indices[j] = last.cmd.indices[i] => j <= i)
             => at(objects, last.cmd.indices[i]).position
                    = last.cmd.positions[i]
       /\ MoveFrame
       /\ MoveReturn

\* A move command listing one index twice, with two positions, both other
\* than the object's.
C6_Witness ==
    /\ MoveWellFormed
    /\ Len(last.cmd.indices) = 2
    /\ last.cmd.indices[1] = last.cmd.indices[2]
    /\ last.cmd.positions[1] # last.cmd.positions[2]
    /\ objects # pre.objects

---------------------------------------------------------------------------
(* undo_history_t: the undo stack and the redo stack, most recent first.   *)

\* A variant of cull that drops the newest commands, not the oldest.
cull_drops_newest(h) ==
    IF Len(h[UNDO]) > UNDO_LIMIT
    THEN [h EXCEPT ![UNDO] = SubSeq(@, Len(@) - UNDO_LIMIT + 1, Len(@))]
    ELSE h

\* undo_history_t::cull
cull(h) ==
    IF Len(h[UNDO]) > UNDO_LIMIT
    THEN [h EXCEPT ![UNDO] = SubSeq(@, 1, UNDO_LIMIT)]
    ELSE h

\* A variant of push that keeps the redo stack.
push_keeps_redo(h, undo) ==
    IF undo.type = "monostate" THEN h
    ELSE cull([h EXCEPT ![UNDO] = <<undo>> \o @])

\* undo_history_t::push
push(h, undo) ==
    IF undo.type = "monostate" THEN h
    ELSE cull([h EXCEPT ![REDO] = <<>>, ![UNDO] = <<undo>> \o @])

\* A variant of undo<U> that leaves the command it applied on its stack.
history_moved_keeps_front(h, U, inverse) ==
    [h EXCEPT ![Other(U)] = <<inverse>> \o @]

\* A variant of undo<U> that puts the command it applied, not the inverse
\* returned, on the other stack.
history_moved_applied(h, U, inverse) ==
    [h EXCEPT ![Other(U)] = <<Head(h[U])>> \o @, ![U] = Tail(@)]

\* The stacks after undo_history_t::undo<U> has applied the front command
\* of history[U] and got inverse back.
history_moved(h, U, inverse) ==
    [h EXCEPT ![Other(U)] = <<inverse>> \o @, ![U] = Tail(@)]

\* undo_history_t::undo<U>(model): nothing on an empty stack; otherwise
\* model.undo on the front command, the inverse pushed on the other stack.
\* An exception out of model.undo leaves the call before either stack is
\* touched.
HistoryUndo(U) ==
    /\ pre' = TheDoc
    /\ pre_history' = history
    /\ IF history[U] = <<>>
       THEN /\ last' = [op |-> "history_undo", U |-> U, threw |-> FALSE]
            /\ UNCHANGED <<docVars, dirtyVars, history, ret>>
       ELSE /\ modify
            /\ \E o \in visit(TheDoc, Head(history[U])) :
                  /\ SetDoc(o.doc)
                  /\ ret' = o.ret
                  /\ last' = [op |-> "history_undo", U |-> U,
                              threw |-> o.ret = out_of_range]
                  /\ history' = IF o.ret = out_of_range THEN history
                                ELSE history_moved(history, U, o.ret)
    /\ UNCHANGED <<selVars, fileVars, chrVars, tile_layer, level_model>>

\* undo_history_t::push(cmd)
HistoryPush(cmd) ==
    /\ last' = [op |-> "push", cmd |-> cmd]
    /\ pre' = TheDoc
    /\ pre_history' = history
    /\ history' = push(history, cmd)
    /\ UNCHANGED <<selVars, docVars, dirtyVars, ret, fileVars, chrVars,
                   tile_layer, level_model>>

---------------------------------------------------------------------------
(* HistSpec: pushes up to past the limit of the undo stack, with a few     *)
(* undo() and redo() calls anywhere in between.  The k-th command pushed   *)
(* is the tile-region command that writes k to the first cell of the       *)
(* graphics layer, so that every command on the stacks can be told apart.  *)

MaxPushes == UNDO_LIMIT + 2

PushedCmd(k) == undo_tiles_t("chr", Rect(Coord(0, 0), Dimen(1, 1)), <<k>>)

HistPushNoOp ==
    /\ HistoryPush(NoOp)
    /\ UNCHANGED mon

HistPush ==
    /\ mon.pushes < MaxPushes
    /\ mon.calls > 0 => mon.late < MaxLatePushes
    /\ HistoryPush(PushedCmd(mon.pushes + 1))
    /\ mon' = [mon EXCEPT !.pushes = @ + 1,
                          !.late = IF mon.calls > 0 THEN @ + 1 ELSE @]

HistUndo ==
    /\ mon.calls < MaxHistCalls
    /\ HistoryUndo(UNDO)
    /\ mon' = [mon EXCEPT !.calls = @ + 1]

HistRedo ==
    /\ mon.calls < MaxHistCalls
    /\ HistoryUndo(REDO)
    /\ mon' = [mon EXCEPT !.calls = @ + 1]

HistInit == InitCommon

HistNext ==
    \/ HistPushNoOp
    \/ HistPush
    \/ HistUndo
    \/ HistRedo

HistSpec == HistInit /\ [][HistNext]_vars

\* C8: the undo stack never holds more than 256 commands; after k pushes
\* of commands other than the no-op, with no undo() or redo() in between, it
\* holds exactly the min(k, 256) most recently pushed commands, most recent
\* first (the 257th push discards the oldest command and no other).
C8_UndoStackKeepsNewest256 ==
    /\ Len(history[UNDO]) <= 256
    /\ mon.calls = 0
       => history[UNDO] = [i \in 1..Min({mon.pushes, 256}) |->
                              PushedCmd(mon.pushes + 1 - i)]

\* The 257th command has just been pushed.
C8_Witness ==
    /\ last.op = "push"
    /\ last.cmd # NoOp
    /\ mon.pushes = 257
    /\ mon.calls = 0
    /\ Len(pre_history[UNDO]) = 256

\* The first n elements of q, or all of q.
Take(q, n) == SubSeq(q, 1, Min({n, Len(q)}))

\* C9: push of the no-op command leaves both stacks unchanged; push of any
\* other command empties the redo stack and puts the command at the front
\* of the undo stack (before the commands that were there, of which the limit
\* leaves room for 255); a redo() right after such a push changes nothing.
C9_PushClearsRedo ==
    /\ [](last.op = "push"
          => IF last.cmd = NoOp
             THEN history = pre_history
             ELSE /\ history[REDO] = <<>>
                  /\ Head(history[UNDO]) = last.cmd
                  /\ Tail(history[UNDO])
                         = Take(pre_history[UNDO], UNDO_LIMIT - 1))
    /\ [][(/\ last.op = "push"
           /\ last.cmd # NoOp
           /\ last'.op = "history_undo"
           /\ last'.U = REDO)
          => UNCHANGED <<docVars, dirtyVars, history>>]_vars

\* A command was pushed while the redo stack held a command.
C9_Witness ==
    /\ last.op = "push"
    /\ last.cmd # NoOp
    /\ pre_history[REDO] # <<>>
    /\ pre_history[UNDO] # <<>>

---------------------------------------------------------------------------
(* SessionSpec: an editing session.  An edit applies a command to the      *)
(* project with model_t::undo and pushes the inverse returned on the       *)
(* history; undo() and redo() may follow in any order.  The commands are   *)
(* those of the contracts above: rectangles inside the canvas, insert      *)
(* lists from the highest index to the lowest, delete lists from the       *)
(* lowest to the highest, moves of distinct objects.                       *)

Ascending(q) == \A i, j \in DOMAIN q : i < j => q[i] < q[j]

\* The insert and delete commands whose lists are in the order the loops of
\* operator()(undo_new_object_t) and operator()(undo_delete_object_t) walk
\* them safely; every other command of SessionCmds.
OrderedLists(c) ==
    /\ c.type = "undo_new_object_t" => Descending(c.indices)
    /\ c.type = "undo_delete_object_t"
       => Ascending([i \in DOMAIN c.objects |-> c.objects[i].first])

SessionCmds(doc) ==
    {c \in TileCmds(doc) : c.rect.d.h = 1}
    \cup PaletteCmds
    \cup {c \in DimenCmds : \A i \in DOMAIN c.tiles.m : c.tiles.m[i] = 1}
    \cup NewObjectCmds(doc)
    \cup {c \in DeleteObjectCmds(doc) : Len(c.objects) <= 2}
    \cup EditObjectCmds(doc)
    \cup MoveObjectsCmds(doc)

\* history.push(model.undo(cmd)): the edit a caller makes.
SessEdit ==
    /\ mon.steps < MaxEdits
    /\ \E cmd \in SessionCmds(TheDoc) :
          \E o \in visit(TheDoc, cmd) :
                /\ SetDoc(o.doc)
                /\ ret' = o.ret
                /\ last' = [op |-> "edit", cmd |-> cmd,
                            threw |-> o.ret = out_of_range]
                /\ history' = IF o.ret = out_of_range THEN history
                              ELSE push(history, o.ret)
    /\ modify
    /\ pre' = TheDoc
    /\ pre_history' = history
    /\ mon' = [mon EXCEPT !.steps = @ + 1,
                          !.ordered = @ /\ OrderedLists(last'.cmd),
                          !.n = IF mon.phase = "edit" THEN @ + 1 ELSE @,
                          !.phase = IF mon.phase = "edit" /\ ~last'.threw
                                    THEN @ ELSE "off"]
    /\ UNCHANGED <<selVars, fileVars, chrVars, tile_layer, level_model>>

SessPushNoOp ==
    /\ HistoryPush(NoOp)
    /\ UNCHANGED mon

\* undo(): the first one after the edits records the document and the undo
\* stack; the phase is left when the calls stop following the pattern of
\* n edits, n undos, n redos.
SessUndo ==
    /\ HistoryUndo(UNDO)
    /\ mon' = IF history[UNDO] = <<>> THEN mon
              ELSE IF last'.threw THEN [mon EXCEPT !.phase = "off"]
              ELSE IF mon.phase = "edit"
              THEN [mon EXCEPT !.phase = "undo", !.u = 1, !.docN = TheDoc,
                               !.undoN = history[UNDO]]
              ELSE IF mon.phase = "undo" /\ mon.u < mon.n
              THEN [mon EXCEPT !.u = @ + 1]
              ELSE [mon EXCEPT !.phase = "off"]

SessRedo ==
    /\ HistoryUndo(REDO)
    /\ mon' = IF history[REDO] = <<>> THEN mon
              ELSE IF last'.threw THEN [mon EXCEPT !.phase = "off"]
              ELSE IF mon.phase = "undo" /\ mon.u = mon.n
              THEN [mon EXCEPT !.phase = "redo", !.r = 1]
              ELSE IF mon.phase = "redo" /\ mon.r < mon.n
              THEN [mon EXCEPT !.r = @ + 1]
              ELSE [mon EXCEPT !.phase = "off"]

SessionInit == InitCommon

SessionNext ==
    \/ SessEdit
    \/ SessPushNoOp
    \/ SessUndo
    \/ SessRedo

SessionSpec == SessionInit /\ [][SessionNext]_vars

\* What C7 says of the calls made so far: all n edits undone give the
\* initial document; all n then redone give the document after the edits,
\* the undo stack of before the undos and an empty redo stack.
RoundTrip ==
    /\ (mon.phase = "undo" /\ mon.u = mon.n) => TheDoc = InitDoc
    /\ (mon.phase = "redo" /\ mon.r = mon.n)
       => /\ TheDoc = mon.docN
          /\ history[UNDO] = mon.undoN
          /\ history[REDO] = <<>>

\* C7: after n <= 256 edits of any kind (tile-region edits, palette-count
\* changes, layer resizes, object inserts and deletes, field edits, moves),
\* each applied and its inverse pushed, n calls of undo() restore the
\* document to its initial state, and n following calls of redo() restore
\* the document after the edits, the undo stack what it was before the
\* undos and the redo stack empty.
C7_UndoAllThenRedoAll == mon.n <= 256 => RoundTrip

\* The round trip of C7 holds when every insert list was given from the
\* highest index to the lowest and every delete list from the lowest index
\* to the highest.
C7_HoldsForOrderedLists == (mon.n <= 256 /\ mon.ordered) => RoundTrip

\* Two edits with ordered lists, the second a field edit of the object the
\* first created, were undone and redone.
C7_OrderedListsWitness ==
    /\ mon.phase = "redo"
    /\ mon.n = 2
    /\ mon.r = 2
    /\ mon.ordered
    /\ mon.docN # InitDoc
    /\ mon.undoN[1].type = "undo_edit_object_t"
    /\ mon.undoN[2].type = "undo_new_object_t"
    /\ last.op = "history_undo"

\* C10: a call of undo() that returns, made on a non-empty undo stack,
\* removes exactly the front command of the undo stack, applies it to the
\* project and puts the inverse returned by that application at the front
\* of the redo stack, the rest of both stacks unchanged; redo() does the
\* same with the stacks exchanged; on an empty source stack either call
\* leaves both stacks and the project unchanged.
C10_UndoMovesFrontCommand ==
    (last.op = "history_undo" /\ ~last.threw)
    => IF pre_history[last.U] = <<>>
       THEN history = pre_history /\ TheDoc = pre
       ELSE \E o \in visit(pre, Head(pre_history[last.U])) :
               /\ o.ret # out_of_range
               /\ TheDoc = o.doc
               /\ history[Other(last.U)]
                      = <<o.ret>> \o pre_history[Other(last.U)]
               /\ history[last.U] = Tail(pre_history[last.U])

\* redo() with two commands on the redo stack changed the document.
C10_Witness ==
    /\ last.op = "history_undo"
    /\ last.U = REDO
    /\ Len(pre_history[REDO]) = 2
    /\ TheDoc # pre
    /\ history[UNDO][1] # pre_history[REDO][1]

---------------------------------------------------------------------------
(* convert.cpp: png_to_chr and chr_to_bitmaps, and chr_file_t::load.  The   *)
(* PNG decoder (lodepng) is not modelled: an image is what lodepng_inspect *)
(* and lodepng::decode give for the requested raw colour type.             *)

\* The image of a PNG file: width, height, the colour type of the file,
\* the raw pixels in raster order as decode returns them (a palette index
\* for LCT_PALETTE, a grey byte for LCT_GREY and LCT_RGB, a pair of grey
\* and alpha otherwise), the alpha bytes of the palette entries, and the
\* call of lodepng that fails ("" when none does).
Image(width, height, colortype, raw, palette, error) ==
    [width |-> width, height |-> height, colortype |-> colortype,
     raw |-> raw, palette |-> palette, error |-> error]

\* 2^k, for the shifts of the code.
RECURSIVE Pow2(_)
Pow2(k) == IF k = 0 THEN 1 ELSE 2 * Pow2(k - 1)

\* Bit k of v.
Bit(v, k) == (v \div Pow2(k)) % 2

\* palette_map_t::palette_map_t: the palette entries (counted from 0)
\* whose alpha is at least 128, in order.
RECURSIVE palette_map_from(_, _, _)
palette_map_from(palette, i, map) ==
    IF i > Len(palette) THEN map
    ELSE palette_map_from(palette, i + 1,
                          IF palette[i] >= 128 THEN Append(map, i - 1)
                          ELSE map)

palette_map_t(palette) == palette_map_from(palette, 1, <<>>)

\* lookup returning the palette number it is given.
lookup_keeps_the_number(map, entry) ==
    IF \E i \in DOMAIN map : map[i] = entry THEN entry ELSE 0

\* palette_map_t::lookup: the place of the entry in the map, counted from
\* 0; 0 when the map does not hold it.
lookup(map, entry) ==
    IF \E i \in DOMAIN map : map[i] = entry
    THEN Min({i \in DOMAIN map : map[i] = entry}) - 1
    ELSE 0

\* palette_map_t::is_alpha
is_alpha(map, entry) == ~\E i \in DOMAIN map : map[i] = entry

\* map_grey_alpha
map_grey_alpha(grey, alpha) == [v |-> grey \div 64, t |-> alpha < 128]

\* image[n] and transparent[n] after the switch on the colour type, n
\* counted from 0.
PixelValue(img, n) ==
    CASE img.colortype = "LCT_PALETTE"
            -> lookup(palette_map_t(img.palette), img.raw[n + 1])
      [] img.colortype \in {"LCT_GREY", "LCT_RGB"}
            -> img.raw[n + 1] \div 64
      [] OTHER
            -> map_grey_alpha(img.raw[n + 1][1], img.raw[n + 1][2]).v

PixelTransparent(img, n) ==
    CASE img.colortype = "LCT_PALETTE"
            -> is_alpha(palette_map_t(img.palette), img.raw[n + 1])
      [] img.colortype \in {"LCT_GREY", "LCT_RGB"}
            -> FALSE
      [] OTHER
            -> map_grey_alpha(img.raw[n + 1][1], img.raw[n + 1][2]).t

\* The blocks of the image in the order of the loops over ty and tx: the
\* pixel coordinates of their top-left corners.
BlockOrigins(img) ==
    [b \in 1..((img.width \div 8) * (img.height \div 8)) |->
        Coord(8 * ((b - 1) % (img.width \div 8)),
              8 * ((b - 1) \div (img.width \div 8)))]

\* tx + x + (ty + y) * width
PixelAt(img, t, x, y) == t.x + x + (t.y + y) * img.width

\* any_transparent && !any_opaque for the block at t.
BlockSkipped(img, t) ==
    /\ \E x, y \in 0..7 : PixelTransparent(img, PixelAt(img, t, x, y))
    /\ ~\E x, y \in 0..7 : ~PixelTransparent(img, PixelAt(img, t, x, y))

\* The byte with the bits of the set bits[k] = 1, cut to 8 bits as
\* std::uint8_t v is.
ByteOfBits(bits) ==
    bits[0] + 2 * bits[1] + 4 * bits[2] + 8 * bits[3] + 16 * bits[4]
    + 32 * bits[5] + 64 * bits[6] + 128 * bits[7]

\* The low plane with the leftmost pixel in the least significant bit.
LowPlaneByte_lsb_first(img, t, y) ==
    ByteOfBits([k \in 0..7 |->
        IF \E x \in 0..7 :
               /\ k = x
               /\ PixelValue(img, PixelAt(img, t, x, y)) % 2 = 1
        THEN 1 ELSE 0])

\* v |= (image[..] & 1) << (7-x) over x: bit k of the byte is set when
\* the term of some x has it set.
LowPlaneByte(img, t, y) ==
    ByteOfBits([k \in 0..7 |->
        IF \E x \in 0..7 :
               /\ k = 7 - x
               /\ PixelValue(img, PixelAt(img, t, x, y)) % 2 = 1
        THEN 1 ELSE 0])

\* v |= (image[..] >> 1) << (7-x) over x: the value shifted is not masked.
HighPlaneByte(img, t, y) ==
    ByteOfBits([k \in 0..7 |->
        IF \E x \in 0..7 :
               /\ k >= 7 - x
               /\ Bit(PixelValue(img, PixelAt(img, t, x, y)) \div 2,
                      k - (7 - x)) = 1
        THEN 1 ELSE 0])

\* The block loop leaving out the bytes of a skipped block.
BlockBytes_skips_clear(img, t) ==
    IF BlockSkipped(img, t) THEN <<>>
    ELSE [y \in 1..8 |-> LowPlaneByte(img, t, y - 1)]
         \o [y \in 1..8 |-> HighPlaneByte(img, t, y - 1)]

\* The 16 bytes the body of the block loop pushes: the low plane, then the
\* high plane, a byte per row.  They are pushed before the test that skips
\* the counter.
BlockBytes(img, t) ==
    [y \in 1..8 |-> LowPlaneByte(img, t, y - 1)]
    \o [y \in 1..8 |-> HighPlaneByte(img, t, y - 1)]

\* The counter and the index list over the blocks from the b-th on: index
\* is incremented unless the block is skipped, then pushed (the push is
\* the loop's increment expression, which continue also runs); the
\* counter is a std::uint16_t.
RECURSIVE BlockIndices(_, _, _, _)
BlockIndicesPush(img, b, index, indices) ==
    BlockIndices(img, b + 1, index, Append(indices, index))

BlockIndices(img, b, index, indices) ==
    IF b > Len(BlockOrigins(img)) THEN indices
    ELSE BlockIndicesPush(img, b,
                          IF BlockSkipped(img, BlockOrigins(img)[b])
                          THEN index ELSE (index + 1) % 65536,
                          indices)

\* chr_patterns_t, or the exception thrown in its place.
ChrPatterns(chr, indices) == [threw |-> "", chr |-> chr, indices |-> indices]
ChrThrew(what) == [threw |-> what, chr |-> <<>>, indices |-> <<>>]

\* png_to_chr that tests the width only.
png_to_chr_tests_width(img) ==
    IF img.error = "lodepng_inspect" THEN ChrThrew("png decoder error")
    ELSE IF img.width % 8 # 0
    THEN ChrThrew("Image width is not a multiple of 8.")
    ELSE IF img.error = "lodepng::decode" THEN ChrThrew("png decoder error")
    ELSE ChrPatterns(
             Flatten([b \in DOMAIN BlockOrigins(img) |->
                         BlockBytes(img, BlockOrigins(img)[b])]),
             BlockIndices(img, 1, 0, <<>>))

\* png_to_chr
png_to_chr(img) ==
    IF img.error = "lodepng_inspect" THEN ChrThrew("png decoder error")
    ELSE IF img.width % 8 # 0
    THEN ChrThrew("Image width is not a multiple of 8.")
    ELSE IF img.height % 8 # 0
    THEN ChrThrew("Image height is not a multiple of 8.")
    ELSE IF img.error = "lodepng::decode" THEN ChrThrew("png decoder error")
    ELSE ChrPatterns(
             Flatten([b \in DOMAIN BlockOrigins(img) |->
                         BlockBytes(img, BlockOrigins(img)[b])]),
             BlockIndices(img, 1, 0, <<>>))

\* chr_file_t::load on a source: no path; a path with no readable or an
\* empty file; a .png file; a file of another extension, taken as CHR
\* bytes.  The result is the members after the call and what the call
\* threw.
CopyToChr(data) ==
    [i \in 1..(16 * MaxChrTiles) |-> IF i <= Len(data) THEN data[i] ELSE 0]

Loaded(chr, indices, threw) ==
    [file |-> [chr |-> chr, indices |-> indices], threw |-> threw]

LoadPng(patterns) ==
    IF patterns.threw # "" THEN Loaded(CopyToChr(<<>>), <<>>, patterns.threw)
    ELSE Loaded(CopyToChr(patterns.chr), patterns.indices, "")

load(file, source) ==
    CASE source.kind = "no path"
            -> Loaded(CopyToChr(<<>>), file.indices, "")
      [] source.kind = "no data"
            -> Loaded(CopyToChr(<<>>), <<>>, "")
      [] source.kind = "png"
            -> LoadPng(png_to_chr(source.image))
      [] source.kind = "chr"
            -> Loaded(CopyToChr(source.data),
                      [i \in 1..(Len(source.data) \div 16) |-> i - 1], "")

\* bad_image, the placeholder of chr_to_bitmaps: the 8x8 pixels of
\* bad_image_xpm, its four colours numbered 64..67, past the colour
\* numbers of nes_colors.
bad_image ==
    <<64, 64, 65, 65, 65, 65, 66, 66,
      64, 64, 64, 65, 65, 66, 66, 66,
      65, 64, 64, 64, 66, 66, 66, 65,
      65, 65, 64, 67, 67, 66, 65, 65,
      65, 65, 66, 67, 67, 64, 65, 65,
      65, 66, 66, 66, 64, 64, 64, 65,
      66, 66, 66, 65, 65, 64, 64, 64,
      66, 66, 65, 65, 65, 65, 64, 64>>

\* The entry of pixel (x, y) of the tile at data + i:
\* ((plane0[y] >> rx) & 1) | (((plane1[y] >> rx) << 1) & 0b10)
TileEntry(data, i, x, y) ==
    Bit(data[i + y + 1], 7 - x) + 2 * Bit(data[i + 8 + y + 1], 7 - x)

\* The bitmap of the tile at data + i for the attribute j: for each pixel
\* the number palette[entry + j*4] % 64 of the colour in nes_colors.
TileBitmap(data, i, palette, j) ==
    [n \in 1..64 |->
        palette[TileEntry(data, i, (n - 1) % 8, (n - 1) \div 8) + j * 4 + 1]
        % 64]

\* chr_to_bitmaps: for each 16 bytes of data the four bitmaps, or four
\* times the placeholder.
chr_to_bitmaps(data, palette, indices) ==
    [tile \in 1..(Len(data) \div 16) |->
        IF \/ tile - 1 >= Len(indices)
           \/ tile - 1 # 0 /\ indices[tile] = indices[tile - 1]
        THEN [j \in 0..3 |-> bad_image]
        ELSE [j \in 0..3 |-> TileBitmap(data, 16 * (tile - 1), palette, j)]]

---------------------------------------------------------------------------
(* FileSpec: a project is written with write_file; the file may then be    *)
(* cut short or have its magic number or version byte changed, and the     *)
(* model may go on to hold another project; then read_file reads the       *)
(* file.  The run starts from one of the projects below.                   *)

\* Names: "a", "m", "C", "D", "x", "f", "g", "h", "U", "S", "v", "w".
StrA == <<97>>
StrM == <<109>>
StrC == <<67>>
StrD == <<68>>
StrX == <<120>>
StrF == <<102>>
StrG == <<103>>
StrH == <<104>>
StrU == <<85>>
StrS == <<83>>
StrV == <<118>>
StrW == <<119, 119>>

\* The 32-bit values of the graphics cells written: 0x01020304 and
\* 0x7FFFFFFF, the largest integer the model's arithmetic holds.
TileWords == {16909060, 2147483647}

\* The grids of dimension d with cells from S: every grid of up to four
\* cells, the grids of one value and one grid of changing values for
\* more.
GridsOver(d, S) ==
    IF d.w * d.h <= 4 THEN {Grid(d, m) : m \in [1..(d.w * d.h) -> S]}
    ELSE {GridNew(d, v) : v \in S}
         \cup {Grid(d, [i \in 1..(d.w * d.h) |->
                          IF i % 3 = 0 THEN Min(S) ELSE Max(S)])}

\* The dimensions of the levels written.
FileDimens == {Dimen(w, h) : w \in 1..MaxW, h \in 1..MaxH}

\* A level whose collision grid has the dimension the graphics grid's and
\* the scale give it (level_model_t::resize as read_file and the editor
\* call it).
PatternLevels(metatile_size) ==
    UNION {{Level(StrA, StrM, <<99, 104, 114>>, 3, chr, coll, <<>>) :
               chr \in GridsOver(d, TileWords),
               coll \in {Grid(collision_div(metatile_size, d),
                              [i \in 1..(collision_div(metatile_size, d).w
                                         * collision_div(metatile_size, d).h)
                                  |-> 256 - i])}} :
           d \in FileDimens}

\* A new level under a scale: level_model_t() resized as the editor and
\* read_file resize a level, the collision grid by collision_div.
NewLevel(metatile_size) ==
    [DefaultLevel EXCEPT
        !.collision_tiles =
            GridNew(collision_div(metatile_size, Dimen(MaxW, MaxH)), 0)]

\* The projects with one level holding a pattern of tiles, and those with
\* a second, new level after it.
PatternProjects ==
    UNION {{[DefaultProject EXCEPT !.metatile_size = mts,
                                   !.levels = <<lv>> \o rest,
                                   !.palette_num = 256 - 127 * mts] :
               lv \in PatternLevels(mts),
               rest \in {<<>>, <<NewLevel(mts)>>}} :
           mts \in {0, 2}}

\* Lists of classes: the default one; a class with the fields f and g; two
\* classes of one name (the first is the one resolved); a class that names
\* the field f twice.
White == [r |-> 255, g |-> 255, b |-> 255]
ClassLists ==
    {DefaultProject.object_classes,
     <<ObjectClass(StrC, StrM, [r |-> 1, g |-> 2, b |-> 0],
                   <<ClassField(StrF, StrU), ClassField(StrG, StrS)>>)>>,
     <<ObjectClass(StrC, <<>>, White, <<ClassField(StrF, StrU)>>),
       ObjectClass(StrC, StrM, White,
                   <<ClassField(StrG, StrU), ClassField(StrF, StrU)>>)>>,
     <<ObjectClass(StrD, <<>>, White, <<>>),
       ObjectClass(StrC, <<>>, White,
                   <<ClassField(StrF, StrU), ClassField(StrF, StrS)>>)>>}

\* Objects of the class C and of the unknown class x, with all, some and
\* none of the fields f and g, and with the field h no class has; the
\* positions reach both ends of the 16-bit signed range.
FileObjs ==
    {[position |-> Coord(0, 0), name |-> <<>>, oclass |-> StrC,
      fields |-> {}],
     [position |-> Coord(1, 32767), name |-> StrA, oclass |-> StrC,
      fields |-> {<<StrF, StrV>>}],
     [position |-> Coord(32767, 0), name |-> StrM, oclass |-> StrC,
      fields |-> {<<StrF, <<>>>>, <<StrG, StrW>>, <<StrH, StrV>>}],
     [position |-> Coord(7, 7), name |-> StrA, oclass |-> StrX,
      fields |-> {<<StrF, StrV>>}],
     [position |-> Coord(-1, -32768), name |-> StrA, oclass |-> StrC,
      fields |-> {<<StrG, StrW>>}]}

\* The projects with no or one object in the first level and one object
\* in the level after it.
ObjectProjects ==
    {[DefaultProject EXCEPT
         !.object_classes = classes,
         !.levels = <<[DefaultLevel EXCEPT !.objects = objs],
                      [DefaultLevel EXCEPT
                          !.name = StrA,
                          !.objects = <<CHOOSE o \in FileObjs :
                                            o.name = StrM>>]>>] :
        classes \in ClassLists,
        objs \in UNION {[1..n -> FileObjs] : n \in 0..1}}

\* The project with no level.
NoLevelProject == [DefaultProject EXCEPT !.levels = <<>>]

Projects ==
    {DefaultProject, NoLevelProject} \cup PatternProjects \cup ObjectProjects

\* A project that has nothing in common with the default one: what the
\* model may hold when read_file is called.
OtherProject ==
    Project(1, StrX,
            <<ChrFile(5, StrX, StrX), ChrFile(6, StrA, <<>>)>>, 2,
            Grid(InitColorTiles.d, [i \in DOMAIN InitColorTiles.m |-> 48]),
            <<ObjectClass(StrX, StrX, [r |-> 9, g |-> 9, b |-> 9],
                          <<ClassField(StrH, StrS)>>)>>,
            <<Level(StrX, StrX, StrX, 1, GridNew(Dimen(1, 1), 77),
                    GridNew(Dimen(1, 1), 5),
                    <<[position |-> Coord(9, 9), name |-> StrX,
                       oclass |-> StrX, fields |-> {<<StrH, StrV>>}]>>)>>,
            TRUE, TRUE)

\* The projects whose files have the version byte changed.
VersionProjects == {DefaultProject, NoLevelProject}

editorVars ==
    <<selVars, docVars, dirtyVars, history, pre_history, chrVars,
      tile_layer, level_model>>

\* write_file(fp, path) on the project the model holds.
FileWrite ==
    /\ mon.io = "new"
    /\ fp' = write_file(project)
    /\ last' = [op |-> "write_file"]
    /\ pre' = project
    /\ mon' = [mon EXCEPT !.io = "written", !.saved = project]
    /\ UNCHANGED <<editorVars, project, ret>>

\* The file is cut short.
FileTruncate ==
    /\ mon.io = "written"
    /\ \E n \in 0..(Len(fp) - 1) : fp' = SubSeq(fp, 1, n)
    /\ last' = [op |-> "truncate"]
    /\ mon' = [mon EXCEPT !.io = "truncated"]
    /\ UNCHANGED <<editorVars, project, ret, pre>>

\* A byte of the magic number is changed.
FileBreakMagic ==
    /\ mon.io = "written"
    /\ \E i \in 1..7 : fp' = [fp EXCEPT ![i] = (@ + 1) % 256]
    /\ last' = [op |-> "break_magic"]
    /\ mon' = [mon EXCEPT !.io = "magic"]
    /\ UNCHANGED <<editorVars, project, ret, pre>>

\* The version byte is changed.
FileSetVersion ==
    /\ mon.io = "written"
    /\ mon.saved \in VersionProjects
    /\ \E v \in Byte \ {SAVE_VERSION} : fp' = [fp EXCEPT ![8] = v]
    /\ last' = [op |-> "set_version"]
    /\ mon' = [mon EXCEPT !.io = "version"]
    /\ UNCHANGED <<editorVars, project, ret, pre>>

\* The model goes on to hold another project before the file is read.
FileReplace ==
    /\ mon.io \in {"written", "truncated", "magic", "version"}
    /\ project # OtherProject
    /\ project' = OtherProject
    /\ last' = [op |-> "replace"]
    /\ UNCHANGED <<editorVars, fp, ret, pre, mon>>

\* The builds that read a file differently: char is signed or unsigned,
\* which shows in a version byte from 128 on and nowhere else.
CharBuilds(buf) ==
    IF Len(buf) >= 8 /\ buf[8] >= 128 THEN BOOLEAN ELSE {TRUE}

\* read_file(fp, path)
FileRead ==
    /\ mon.io \in {"written", "truncated", "magic", "version"}
    /\ \E char_signed \in CharBuilds(fp) :
          \E r \in {read_file(project, fp, char_signed)} :
             /\ project' = r.project
             /\ ret' = [threw |-> r.threw, pos |-> r.pos]
             /\ last' = [op |-> "read_file", file |-> mon.io,
                         char_signed |-> char_signed]
    /\ pre' = project
    /\ mon' = [mon EXCEPT !.io = "read"]
    /\ UNCHANGED <<editorVars, fp>>

FileInit ==
    /\ InitEditor
    /\ project \in Projects

FileNext ==
    \/ FileWrite
    \/ FileTruncate
    \/ FileBreakMagic
    \/ FileSetVersion
    \/ FileReplace
    \/ FileRead

FileSpec == FileInit /\ [][FileNext]_vars

---------------------------------------------------------------------------
(* Claims about the project file.                                          *)

\* The value an object has for a field of its class: the empty string when
\* it lacks the field.
ClassFieldValue(obj, name) ==
    IF FieldValues(obj, name) = {} THEN <<>>
    ELSE CHOOSE x \in FieldValues(obj, name) : TRUE

\* Two objects agree on their class fields.
SameClassFields(classes, a, b) ==
    \A i \in DOMAIN FieldsOfClass(classes, a.oclass) :
        ClassFieldValue(a, FieldsOfClass(classes, a.oclass)[i].name)
        = ClassFieldValue(b, FieldsOfClass(classes, a.oclass)[i].name)

\* Two objects agree on name, class name and class fields.
SameObjectData(classes, a, b) ==
    /\ a.name = b.name
    /\ a.oclass = b.oclass
    /\ SameClassFields(classes, a, b)

\* Two levels agree on everything but the objects' positions.
SameLevelData(classes, a, b) ==
    /\ a.name = b.name
    /\ a.macro_name = b.macro_name
    /\ a.chr_name = b.chr_name
    /\ a.palette = b.palette
    /\ a.chr_tiles = b.chr_tiles
    /\ a.collision_tiles = b.collision_tiles
    /\ Len(a.objects) = Len(b.objects)
    /\ \A j \in DOMAIN a.objects :
           SameObjectData(classes, a.objects[j], b.objects[j])

\* Two projects agree on the objects' positions.
SamePositions(a, b) ==
    /\ Len(a.levels) = Len(b.levels)
    /\ \A i \in DOMAIN a.levels :
           /\ Len(a.levels[i].objects) = Len(b.levels[i].objects)
           /\ \A j \in DOMAIN a.levels[i].objects :
                  a.levels[i].objects[j].position
                  = b.levels[i].objects[j].position

\* Two projects agree on everything the file holds but the objects'
\* positions.
SameProjectData(a, b) ==
    /\ a.metatile_size = b.metatile_size
    /\ a.collision_path = b.collision_path
    /\ a.chr_files = b.chr_files
    /\ a.palette_num = b.palette_num
    /\ a.color_tiles = b.color_tiles
    /\ a.object_classes = b.object_classes
    /\ Len(a.levels) = Len(b.levels)
    /\ \A i \in DOMAIN a.levels :
           SameLevelData(a.object_classes, a.levels[i], b.levels[i])

\* read_file has just read the file as write_file wrote it.
ReadOfWritten == last.op = "read_file" /\ last.file = "written"

\* read_file returned at the end of the file.
ReadAll == ret.threw = "" /\ ret.pos = Len(fp) + 1

\* Every object of the project is at a position with no negative
\* coordinate.
PositionsUnsigned(p) ==
    \A i \in DOMAIN p.levels :
        \A j \in DOMAIN p.levels[i].objects :
            /\ p.levels[i].objects[j].position.x >= 0
            /\ p.levels[i].objects[j].position.y >= 0

\* C11: a project written with write_file and read with read_file is the
\* same project (scale, levels with names, palette index, dimensions, tile
\* and collision cells and objects in order, palette count and bytes,
\* class schemas), and the reader consumes exactly the bytes written.
C11_WriteThenReadReproduces ==
    ReadOfWritten =>
        /\ ReadAll
        /\ SameProjectData(mon.saved, project)
        /\ SamePositions(mon.saved, project)

\* The round trip of C11 holds for the projects whose objects have no
\* negative coordinate, whatever the model held before the read.
C11_HoldsForUnsignedPositions ==
    ReadOfWritten /\ PositionsUnsigned(mon.saved) =>
        /\ ReadAll
        /\ SameProjectData(mon.saved, project)
        /\ SamePositions(mon.saved, project)
        /\ ~project.modified /\ ~project.modified_since_save

\* A project with a tile pattern and a second level, and one with an
\* object that lacks a field of its class, have been written and read
\* back, over a model that held another project.
C11_PatternWitness ==
    /\ ReadOfWritten /\ ReadAll
    /\ pre = OtherProject
    /\ mon.saved \in PatternProjects
    /\ Len(project.levels) = 2
    /\ project.metatile_size = 2
    /\ project.palette_num = 2
    /\ project.levels[1].chr_tiles.d = Dimen(MaxW, MaxH)
    /\ \E i, j \in DOMAIN project.levels[1].chr_tiles.m :
           project.levels[1].chr_tiles.m[i]
           # project.levels[1].chr_tiles.m[j]

C11_ObjectWitness ==
    /\ ReadOfWritten /\ ReadAll
    /\ pre = OtherProject
    /\ PositionsUnsigned(mon.saved)
    /\ \E o \in UNION {{project.levels[i].objects[j] :
                           j \in DOMAIN project.levels[i].objects} :
                      i \in DOMAIN project.levels} :
           /\ o.oclass = StrC
           /\ Len(FieldsOfClass(project.object_classes, StrC)) = 2
           /\ <<StrF, StrV>> \in o.fields
           /\ <<StrG, <<>>>> \in o.fields



\* read_file has just thrown.
ReadThrew == last.op = "read_file" /\ ret.threw # ""

\* C12: when read_file fails (wrong magic number, newer version, data
\* that ends early at any point), the project in memory is exactly what
\* it was before the call.
C12_FailedReadLeavesProject == ReadThrew => project = pre

\* A failure of the magic number or of the version check leaves the
\* project as it was: nothing has been assigned yet.
C12_HoldsBeforeTheBody ==
    /\ ReadThrew
    /\ ret.threw \in {"Unable to read magic number.",
                      "Incorrect magic number.",
                      "File is from a newer version of XFab."}
    => project = pre

\* A file that ends after the version byte leaves the members assigned
\* before the failing read changed: here the CHR sources and the palette
\* are those of the file, and the class list holds one new class, added
\* before the read of its name failed.
C12_PartlyReadWitness ==
    /\ ReadThrew
    /\ last.file = "truncated"
    /\ pre = OtherProject
    /\ project.chr_files # pre.chr_files
    /\ project.color_tiles # pre.color_tiles
    /\ project.object_classes = <<ObjectClass(<<>>, <<>>, White, <<>>)>>
    /\ project.levels = pre.levels
    /\ project.modified

\* C13: read_file rejects every file whose version byte is greater than
\* SAVE_VERSION (2..255) and accepts the version bytes 0 and 1.
C13_VersionByteDecides ==
    last.op = "read_file" /\ last.file \in {"written", "version"} =>
        /\ fp[8] > SAVE_VERSION
           => ret.threw = "File is from a newer version of XFab."
        /\ fp[8] <= SAVE_VERSION => ret.threw = ""

\* Where char is unsigned, and for the bytes up to 127 on every build, the
\* version byte decides as C13 says.
C13_HoldsForUnsignedChar ==
    /\ last.op = "read_file" /\ last.file \in {"written", "version"}
    /\ ~last.char_signed \/ fp[8] < 128
    => /\ fp[8] > SAVE_VERSION
          => ret.threw = "File is from a newer version of XFab."
       /\ fp[8] <= SAVE_VERSION => ReadAll

\* Where char is signed, a file with a version byte from 128 on is read
\* like a file of the current version.
C13_SignedCharAccepts ==
    /\ last.op = "read_file" /\ last.file = "version"
    /\ last.char_signed /\ fp[8] >= 128
    => ret.threw = "" /\ project = mon.saved

C13_SignedCharWitness ==
    /\ last.op = "read_file" /\ last.file = "version"
    /\ last.char_signed /\ fp[8] = 255
    /\ pre = OtherProject
    /\ project = DefaultProject

\* The length of the field strings of an object: for each field of the
\* class, the value and its terminating zero.
RECURSIVE FieldStringsLen(_, _)
FieldStringsLen(obj, classFields) ==
    IF classFields = <<>> THEN 0
    ELSE Len(ClassFieldValue(obj, Head(classFields).name)) + 1
         + FieldStringsLen(obj, Tail(classFields))

\* What write_file wrote for the object w and what read_file made of it:
\* after name, class name and position there is one zero-terminated string
\* per field of the resolved class (none when no class has the name); the
\* object read holds exactly the fields of the class, each with the value
\* w had, the empty string where w lacked the field.
FieldStringsAgree(classes, w, r) ==
    /\ Len(WriteObject(classes, w))
       = Len(w.name) + 1 + Len(w.oclass) + 1 + 4
         + FieldStringsLen(w, FieldsOfClass(classes, w.oclass))
    /\ SameObjectData(classes, w, r)
    /\ {p[1] : p \in r.fields}
       = {FieldsOfClass(classes, w.oclass)[k].name :
             k \in DOMAIN FieldsOfClass(classes, w.oclass)}
    /\ \A p \in r.fields : p[2] = ClassFieldValue(w, p[1])

\* C14: write_file emits for every object one zero-terminated string per
\* field of the resolved class, in the class's order, a single zero byte
\* for a field the object lacks and none when the class is unknown;
\* read_file consumes as many; after the round trip each class field has
\* its value, an absent one the empty string, and the objects and levels
\* that follow are read aligned.
C14_FieldStringsFollowTheClass ==
    ReadOfWritten =>
        /\ ReadAll
        /\ SameProjectData(mon.saved, project)
        /\ \A i \in DOMAIN mon.saved.levels :
               \A j \in DOMAIN mon.saved.levels[i].objects :
                   FieldStringsAgree(mon.saved.object_classes,
                                     mon.saved.levels[i].objects[j],
                                     project.levels[i].objects[j])

\* An object of the class C (fields f, g) that lacked f has been read
\* back with f empty and g as written, and the object of the level after
\* it, which had f empty, g and a field no class has, is read aligned.
C14_Witness ==
    /\ ReadOfWritten
    /\ Len(project.levels) = 2
    /\ Len(project.levels[1].objects) = 1
    /\ Len(FieldsOfClass(project.object_classes, StrC)) = 2
    /\ mon.saved.levels[1].objects[1].fields = {<<StrG, StrW>>}
    /\ project.levels[1].objects[1].fields
       = {<<StrF, <<>>>>, <<StrG, StrW>>}
    /\ project.levels[2].name = StrA
    /\ project.levels[2].objects[1].name = StrM
    /\ project.levels[2].objects[1].fields
       = {<<StrF, <<>>>>, <<StrG, StrW>>}

\* An object of a class no class list has is written without field
\* strings and read back with no fields.
C14_UnknownClassWitness ==
    /\ ReadOfWritten
    /\ Len(project.levels) = 2
    /\ Len(project.levels[1].objects) = 1
    /\ project.levels[1].objects[1].oclass = StrX
    /\ mon.saved.levels[1].objects[1].fields # {}
    /\ project.levels[1].objects[1].fields = {}
    /\ project.levels[2].objects[1].name = StrM

\* C15: for every position with x and y in -32768..32767, the position
\* read_file reads back equals the position write_file wrote.
C15_PositionReadBack ==
    ReadOfWritten /\ ReadAll => SamePositions(mon.saved, project)

\* What is read back is the low 16 bits of each coordinate, as an unsigned
\* value: the position itself when no coordinate is negative.
C15_ReadBackIsUnsigned ==
    ReadOfWritten =>
        \A i \in DOMAIN mon.saved.levels :
            \A j \in DOMAIN mon.saved.levels[i].objects :
                /\ project.levels[i].objects[j].position.x
                   = mon.saved.levels[i].objects[j].position.x % 65536
                /\ project.levels[i].objects[j].position.y
                   = mon.saved.levels[i].objects[j].position.y % 65536

C15_UnsignedWitness ==
    /\ ReadOfWritten
    /\ Len(project.levels) = 2
    /\ Len(project.levels[1].objects) = 1
    /\ mon.saved.levels[1].objects[1].position = Coord(-1, -32768)
    /\ project.levels[1].objects[1].position = Coord(65535, 32768)
    /\ project.levels[2].objects[1].position = Coord(32767, 0)

---------------------------------------------------------------------------
(* ConvSpec: a CHR source is loaded with chr_file_t::load, from a PNG      *)
(* image or from CHR bytes, and its bitmaps are made with chr_to_bitmaps.  *)

\* The largest width and height of an image, in blocks of 8 pixels.
MaxImgW == 2
MaxImgH == 2
\* Largest number of loads in a run.
MaxLoads == 2

\* What a block of an image shows: "clear", every pixel transparent;
\* "solid", no pixel transparent; "holes", the pixels of the diagonal
\* transparent.  The value of pixel (x, y) is (x + y + k) % 4, k the
\* number of the kind, so that every row holds every value.
BlockKinds == {"clear", "solid", "holes"}

KindNumber(kind) ==
    CASE kind = "clear" -> 0 [] kind = "solid" -> 1 [] kind = "holes" -> 2
      [] kind = "wide" -> 3

KindTransparent(kind, x, y) ==
    kind = "clear" \/ (kind = "holes" /\ x = y)

\* A "wide" block shows the values 0..4, every row holding a 4 right of
\* a 0: 0, 4, 3, 2, 1, 0, 4, 3 in the first row.
KindValue(kind, x, y) ==
    IF kind = "wide" THEN (4 * (x + y)) % 5
    ELSE (x + y + KindNumber(kind)) % 4

\* The palette of the paletted images: the entries 0, 2, 3 and 5 are
\* opaque (alpha 255, 128, 255, 200), the entries 1 and 4 are not (alpha
\* 0 and 127); and one with five opaque entries.
FourColours == <<255, 0, 128, 255, 127, 200>>
FiveColours == <<255, 255, 0, 255, 255, 255>>

\* The numbers, from 0, of the palette entries with alpha < 128, in
\* palette order.
RECURSIVE DroppedFrom(_, _, _)
DroppedFrom(palette, i, dropped) ==
    IF i > Len(palette) THEN dropped
    ELSE DroppedFrom(palette, i + 1,
                     IF palette[i] < 128 THEN Append(dropped, i - 1)
                     ELSE dropped)

DroppedEntries(palette) == DroppedFrom(palette, 1, <<>>)

\* The raw pixel of a colour type showing the value v, transparent or
\* not: alpha 127 and 128 are the two sides of the test alpha < 128.  A
\* transparent pixel of a paletted image uses one of the entries with
\* alpha < 128, chosen by v.
RawPixel(colortype, palette, v, t) ==
    CASE colortype = "LCT_PALETTE"
            -> IF t THEN DroppedEntries(palette)[
                             ((v \div 2) % Len(DroppedEntries(palette))) + 1]
               ELSE palette_map_t(palette)[v + 1]
      [] colortype \in {"LCT_GREY", "LCT_RGB"} -> 64 * v + 63
      [] OTHER -> <<64 * v + 17, IF t THEN 127 ELSE 128>>

\* The image of a colour type whose blocks, in raster order, show kinds:
\* any pixel outside the blocks (a width or height that is no multiple of
\* 8) shows the first kind.
KindAt(width, kinds, px, py) ==
    IF (py \div 8) * ((width + 7) \div 8) + (px \div 8) + 1 \in DOMAIN kinds
    THEN kinds[(py \div 8) * ((width + 7) \div 8) + (px \div 8) + 1]
    ELSE kinds[1]

PaintedPixel(width, colortype, palette, kinds, px, py) ==
    RawPixel(colortype, palette,
             KindValue(KindAt(width, kinds, px, py), px % 8, py % 8),
             KindTransparent(KindAt(width, kinds, px, py), px % 8, py % 8))

Painted(width, height, colortype, palette, kinds, error) ==
    Image(width, height, colortype,
          [n \in 1..(width * height) |->
              PaintedPixel(width, colortype, palette, kinds,
                           (n - 1) % width, (n - 1) \div width)],
          palette, error)

ColorTypes == {"LCT_PALETTE", "LCT_GREY", "LCT_RGB", "LCT_GREY_ALPHA"}

\* The kinds a colour type can show: LCT_GREY and LCT_RGB have no alpha.
KindsOf(colortype) ==
    IF colortype \in {"LCT_GREY", "LCT_RGB"} THEN {"solid", "holes"}
    ELSE BlockKinds

\* The kinds of the n blocks of an image: every choice for up to four
\* blocks, three choices that go round the kinds for more.
KindLists(n, kinds) ==
    IF n <= 4 THEN [1..n -> kinds]
    ELSE {[i \in 1..n |->
              CASE (i + k) % 3 = 0 -> "solid"
                [] (i + k) % 3 = 1 -> "holes"
                [] OTHER -> IF "clear" \in kinds THEN "clear" ELSE "solid"] :
          k \in 0..2}

\* The images whose width and height are multiples of 8.
GoodImages ==
    UNION {UNION {{Painted(8 * w, 8 * h, ct, FourColours, kinds, "") :
                      kinds \in KindLists(w * h, KindsOf(ct))} :
                  ct \in ColorTypes} :
           w \in 1..MaxImgW, h \in 1..MaxImgH}

\* Paletted images with five opaque entries.
WideImages ==
    {Painted(8 * w, 8, "LCT_PALETTE", FiveColours, kinds, "") :
        w \in 1..MaxImgW, kinds \in {<<"wide", "wide">>, <<"clear", "wide">>}}

\* The images with a width or a height that is no multiple of 8: one
\* pixel, four pixels, and one pixel less and more than each multiple.
OddSizes ==
    {1, 4} \cup {8 * k - 1 : k \in 1..MaxImgW} \cup {8 * k + 1 : k \in 1..MaxImgW}

OddImages ==
    {Painted(w, h, ct, FourColours, <<kind>>, "") :
        w \in OddSizes \cup {8}, h \in OddSizes \cup {8},
        ct \in ColorTypes, kind \in {"solid", "clear"}}
    \ {Painted(8, 8, ct, FourColours, <<kind>>, "") :
          ct \in ColorTypes, kind \in {"solid", "clear"}}

\* Files lodepng rejects.
BrokenImages ==
    {Painted(w, 8, "LCT_GREY", FourColours, <<"solid">>, e) :
        w \in {7, 8}, e \in {"lodepng_inspect", "lodepng::decode"}}

\* CHR bytes: files of one tile, of a tile and a half, and of one tile
\* more than the array holds.
ChrDatas ==
    {[i \in 1..n |-> (37 * i) % 256] :
        n \in {16, 24, 16 * (MaxChrTiles + 1)}}

ChrSources ==
    {[kind |-> "no path"], [kind |-> "no data"]}
    \cup {[kind |-> "png", image |-> img] :
             img \in GoodImages \cup WideImages \cup OddImages
                     \cup BrokenImages}
    \cup {[kind |-> "chr", data |-> d] : d \in ChrDatas}

\* palette_array_t values: the 16 colour numbers of the four attributes.
Palettes ==
    {[i \in 1..16 |-> (i * 5) % 64], [i \in 1..16 |-> 200 - i]}

otherVars ==
    <<selVars, docVars, dirtyVars, history, pre_history, fileVars,
      tile_layer, level_model>>

\* chr_file_t::load of a source; for a .png file ret is what png_to_chr
\* returned or threw.  mon.source is the source the index list is of, and
\* what its load threw.
ConvLoad ==
    /\ mon.loads < MaxLoads
    /\ chr_bitmaps = <<>>
    /\ \E source \in ChrSources :
          /\ mon.loads >= 1 => source.kind \in {"no path", "no data"}
          /\ \E r \in {load(chr_file, source)} :
                /\ chr_file' = r.file
                /\ ret' = IF source.kind = "png"
                          THEN png_to_chr(source.image)
                          ELSE [threw |-> r.threw]
                /\ mon' = [mon EXCEPT
                              !.loads = @ + 1,
                              !.source =
                                  IF source.kind = "no path" THEN @
                                  ELSE source @@ [threw |-> r.threw]]
          /\ last' = [op |-> "load", source |-> source]
    /\ pre' = chr_file
    /\ UNCHANGED <<otherVars, chr_bitmaps>>

\* level_model_t::refresh_chr for the source: chr_to_bitmaps on the whole
\* chr array.
ConvRefresh ==
    /\ mon.loads > 0
    /\ chr_bitmaps = <<>>
    /\ \E palette \in Palettes :
          /\ chr_bitmaps' = chr_to_bitmaps(chr_file.chr, palette,
                                           chr_file.indices)
          /\ last' = [op |-> "refresh_chr", palette |-> palette]
    /\ UNCHANGED <<otherVars, chr_file, ret, pre, mon>>

ConvInit == InitCommon

ConvNext == ConvLoad \/ ConvRefresh

ConvSpec == ConvInit /\ [][ConvNext]_vars

---------------------------------------------------------------------------
(* Claims about png_to_chr and chr_to_bitmaps.                             *)

\* png_to_chr has just been called, by load, on the image TheImage.
PngCall == last.op = "load" /\ last.source.kind = "png"

TheImage == last.source.image

\* The number of 8x8 blocks of an image.
NumBlocks(img) == (img.width \div 8) * (img.height \div 8)

\* Every pixel of the b-th block of the image, in raster order, is
\* transparent.
AllTransparent(img, b) ==
    \A x, y \in 0..7 :
        PixelTransparent(img, PixelAt(img, BlockOrigins(img)[b], x, y))

\* The blocks of the image that are not fully transparent.
OpaqueBlocks(img) == {b \in 1..NumBlocks(img) : ~AllTransparent(img, b)}

\* C16: png_to_chr fails and returns no tile bytes and no index entries
\* whenever the width or the height of the image is not a multiple of 8,
\* for every colour model; nothing is decoded in part.
C16_OddSizeFails ==
    PngCall /\ (TheImage.width % 8 # 0 \/ TheImage.height % 8 # 0) =>
        /\ ret.threw # ""
        /\ ret.chr = <<>> /\ ret.indices = <<>>
        /\ chr_file = NewChrData

\* An image of a whole first row of blocks and one more row of pixels has
\* been refused for its height.
C16_Witness ==
    /\ PngCall
    /\ TheImage.colortype = "LCT_PALETTE"
    /\ TheImage.width = 8 /\ TheImage.height = 9
    /\ ret.threw = "Image height is not a multiple of 8."
    /\ chr_file = NewChrData

TwoBit(img) ==
    \A n \in 0..(img.width * img.height - 1) : PixelValue(img, n) < 4

RefreshOfPng ==
    /\ last.op = "refresh_chr"
    /\ mon.source.kind = "png"
    /\ mon.source.threw = ""

LoadedImage == mon.source.image

\* The bitmaps of the b-th block of the image under the palette: each
\* pixel's value looked up in the row of the attribute.
BlockBitmaps(img, b, palette) ==
    [j \in 0..3 |->
        [n \in 1..64 |->
            palette[PixelValue(img, PixelAt(img, BlockOrigins(img)[b],
                                            (n - 1) % 8, (n - 1) \div 8))
                    + j * 4 + 1] % 64]]

\* Tile position j (from 0) has no tile: its block was fully transparent,
\* or the image has no block j.
NoTileAt(img, j) == j >= NumBlocks(img) \/ AllTransparent(img, j + 1)

\* The placeholder for all four attribute values.
Placeholders == [j \in 0..3 |-> bad_image]

\* C19: chr_to_bitmaps gives the placeholder, for all four attribute
\* values, at tile position j exactly when position j has no tile in the
\* index list, that is when source block j was fully transparent or j is
\* past the end of the list, for every j >= 0 including 0; at every other
\* position it gives the four decoded bitmaps.
C19_PlaceholderWhereNoTile ==
    RefreshOfPng =>
        \A j \in 0..(MaxChrTiles - 1) :
            /\ chr_bitmaps[j + 1] = Placeholders <=> NoTileAt(LoadedImage, j)
            /\ ~NoTileAt(LoadedImage, j) /\ mon.loads = 1
               /\ TwoBit(LoadedImage)
               => chr_bitmaps[j + 1]
                  = BlockBitmaps(LoadedImage, j + 1, last.palette)

\* The same from the second position on; the first position never gets
\* the placeholder when the image has a block.
C19_HoldsPastTheFirstTile ==
    RefreshOfPng =>
        /\ \A j \in 1..(MaxChrTiles - 1) :
               /\ chr_bitmaps[j + 1] = Placeholders
                  <=> NoTileAt(LoadedImage, j)
               /\ ~NoTileAt(LoadedImage, j) /\ mon.loads = 1
                  /\ TwoBit(LoadedImage)
                  => chr_bitmaps[j + 1]
                     = BlockBitmaps(LoadedImage, j + 1, last.palette)
        /\ chr_bitmaps[1] # Placeholders
        /\ mon.loads = 1 /\ TwoBit(LoadedImage)
           => chr_bitmaps[1] = BlockBitmaps(LoadedImage, 1, last.palette)

\* An image whose first block is fully transparent and whose second is
\* not has been loaded and drawn: decoded bitmaps at both positions, the
\* placeholder past the end of the index list.
C19_FirstTileWitness ==
    /\ RefreshOfPng
    /\ mon.loads = 1
    /\ NumBlocks(LoadedImage) = 2
    /\ OpaqueBlocks(LoadedImage) = {2}
    /\ chr_file.indices = <<0, 1>>
    /\ chr_bitmaps[1] # Placeholders
    /\ chr_bitmaps[2] # Placeholders
    /\ chr_bitmaps[3] = Placeholders

---------------------------------------------------------------------------
(* tile_layer_t::fill, on a layer value.                                   *)

\* a | b of two unsigned values.
RECURSIVE BitOr(_, _)
BitOr(a, b) ==
    IF a = 0 THEN b
    ELSE IF b = 0 THEN a
    ELSE (IF a % 2 = 1 \/ b % 2 = 1 THEN 1 ELSE 0)
         + 2 * BitOr(a \div 2, b \div 2)

\* A std::uint32_t of the upper half hi and the lower half lo, held as
\* the integer of the same 32 bits in two's complement: 0xFFFFFFFF is -1.
Word32(hi, lo) ==
    IF hi >= 32768 THEN (hi - 65536) * 65536 + lo ELSE hi * 65536 + lo

\* tile_layer_t::canvas_dimen and color_layer_t's override
\* { tiles.dimen().w, num }.
layer_canvas_dimen(layer) ==
    IF layer.format = "LAYER_COLOR"
    THEN Dimen(layer.tiles.d.w, layer.num)
    ELSE layer.tiles.d

\* tile_layer_t::get and tile_layer_t::set
layer_get(layer, c) == GridGet(layer.tiles, c)

layer_set(layer, c, value) ==
    [layer EXCEPT !.tiles = GridSet(layer.tiles, c, value)]

\* A to_tile that numbers the picker cells from one less.
to_tile_one_less(layer, pick) ==
    IF layer.format = "LAYER_COLOR"
    THEN pick.y + pick.x * layer.picker_selector.sel.d.h - 1
    ELSE pick.x + pick.y * layer.picker_selector.sel.d.w - 1

\* tile_layer_t::to_tile and the overrides of color_layer_t and
\* chr_layer_t.
to_tile(layer, pick) ==
    CASE layer.format = "LAYER_COLOR"
            -> pick.y + pick.x * layer.picker_selector.sel.d.h
      [] layer.format = "LAYER_CHR"
            -> Word32(BitOr(BitOr(pick.x
                                  + pick.y * layer.picker_selector.sel.d.w,
                                  (layer.active % 4) * 16384) \div 65536,
                            layer.chr_id % 65536) % 65536,
                      BitOr(pick.x + pick.y * layer.picker_selector.sel.d.w,
                            (layer.active % 4) * 16384) % 65536)
      [] OTHER -> pick.x + pick.y * layer.picker_selector.sel.d.w

\* tile_layer_t::save(rect) on a layer value.
layer_save(layer, rect) ==
    undo_tiles_t(layer.format, crop(rect, layer_canvas_dimen(layer)),
                 [i \in DOMAIN rect_range(crop(rect,
                                               layer_canvas_dimen(layer)))
                     |-> layer_get(layer,
                                   rect_range(crop(rect,
                                       layer_canvas_dimen(layer)))[i])])

\* A variant of FillPick that does not wrap the offset.
FillPick_no_wrap(c, canvas_rect, picker_rect) ==
    Coord((c.x - canvas_rect.c.x) + picker_rect.c.x,
          (c.y - canvas_rect.c.y) + picker_rect.c.y)

\* The picker cell fill() takes for the canvas cell c: the offset of c in
\* canvas_rect, reduced modulo the picker rectangle's size, from the
\* picker rectangle's corner.
FillPick(c, canvas_rect, picker_rect) ==
    Coord(((c.x - canvas_rect.c.x) % picker_rect.d.w) + picker_rect.c.x,
          ((c.y - canvas_rect.c.y) % picker_rect.d.h) + picker_rect.c.y)

\* canvas_selector.for_each_selected(...) of fill(): the cells of the
\* cached rectangle from the i-th on, those selected being set.
RECURSIVE FillFrom(_, _, _, _, _)
FillFrom(layer, cells, canvas_rect, picker_rect, i) ==
    IF i > Len(cells) THEN layer
    ELSE FillFrom(IF GridGet(layer.canvas_selector.sel, cells[i]) # 0
                  THEN layer_set(layer, cells[i],
                                 to_tile(layer,
                                         FillPick(cells[i], canvas_rect,
                                                  picker_rect)))
                  ELSE layer,
                  cells, canvas_rect, picker_rect, i + 1)

FillWith(layer, canvas_rect, picker_rect) ==
    IF ~RectBool(canvas_rect) \/ ~RectBool(picker_rect)
    THEN [layer |-> layer, ret |-> NoOp]
    ELSE [layer |-> FillFrom(layer,
                             rect_range(layer.canvas_selector.rect),
                             canvas_rect, picker_rect, 1),
          ret |-> layer_save(layer, canvas_rect)]

\* tile_layer_t::fill
fill(layer) ==
    FillWith(layer,
             crop(layer.canvas_selector.rect, layer_canvas_dimen(layer)),
             layer.picker_selector.rect)

---------------------------------------------------------------------------
(* FillSpec: selections in the picker and on the canvas of one layer, and  *)
(* fill().                                                                 *)

\* The number of select calls of a run.
MaxSelects == 3

\* The tiles of the layer before any fill: no value is a to_tile value.
FillTiles ==
    Grid(Dimen(CanvasW, CanvasH),
         [i \in 1..(CanvasW * CanvasH) |-> 100 + i])

FillLayer(format, num, chr_id, active) ==
    TileLayer(format, NewTileLayer.picker_selector,
              NewTileLayer.canvas_selector, FillTiles, num, chr_id, active)

\* A collision layer, palette layers with two rows and with all rows in
\* use, graphics layers of several CHR sources and attributes.
FillLayers ==
    {FillLayer("LAYER_COLLISION", 1, 0, 0)}
    \cup {FillLayer("LAYER_COLOR", num, 0, 0) : num \in {2, CanvasH}}
    \cup {FillLayer("LAYER_CHR", 1, 0, 0), FillLayer("LAYER_CHR", 1, 2, 3),
          FillLayer("LAYER_CHR", 1, 1, 5)}

\* A call select(r, select) of a selector.
SelectCall(r, select) == [r |-> r, select |-> select]

\* The calls on the picker: the 2x3 rectangle off the corner, the whole
\* picker and the corner cell are selected, a cell of the 2x3 rectangle
\* is deselected.
PickerCalls ==
    {SelectCall(Rect(Coord(1, 1), Dimen(2, 3)), TRUE),
     SelectCall(Rect(Coord(0, 0), Dimen(PickerW, PickerH)), TRUE),
     SelectCall(Rect(Coord(0, 0), Dimen(1, 1)), TRUE),
     SelectCall(Rect(Coord(1, 2), Dimen(1, 1)), FALSE)}

\* The calls on the canvas: the 5x5 rectangle off the corner, a corner
\* block and a rectangle that reaches past the canvas are selected; a
\* cell, the first row and the first column of the 5x5 rectangle are
\* deselected.
CanvasCalls ==
    {SelectCall(Rect(Coord(1, 1), Dimen(5, 5)), TRUE),
     SelectCall(Rect(Coord(0, 0), Dimen(2, 2)), TRUE),
     SelectCall(Rect(Coord(0, 3), Dimen(CanvasW + 1, CanvasH + 1)), TRUE),
     SelectCall(Rect(Coord(2, 2), Dimen(1, 1)), FALSE),
     SelectCall(Rect(Coord(1, 1), Dimen(5, 1)), FALSE),
     SelectCall(Rect(Coord(1, 1), Dimen(1, 5)), FALSE)}

fillRest ==
    <<selVars, docVars, dirtyVars, history, pre_history, fileVars, chrVars,
      level_model>>

\* picker_selector.select(r, select)
FillSelectPicker ==
    /\ mon.selects < MaxSelects
    /\ \E call \in PickerCalls :
          /\ tile_layer' =
                [tile_layer EXCEPT
                    !.picker_selector = select_rect(@, call.r, call.select)]
          /\ last' = [op |-> "picker select", call |-> call]
    /\ mon' = [mon EXCEPT !.selects = @ + 1]
    /\ pre' = tile_layer
    /\ UNCHANGED <<fillRest, ret>>

\* canvas_selector.select(r, select)
FillSelectCanvas ==
    /\ mon.selects < MaxSelects
    /\ \E call \in CanvasCalls :
          /\ tile_layer' =
                [tile_layer EXCEPT
                    !.canvas_selector = select_rect(@, call.r, call.select)]
          /\ last' = [op |-> "canvas select", call |-> call]
    /\ mon' = [mon EXCEPT !.selects = @ + 1]
    /\ pre' = tile_layer
    /\ UNCHANGED <<fillRest, ret>>

\* fill() of the layer; a run fills after any of its selections, never
\* twice in a row.
FillFill ==
    /\ last.op # "fill"
    /\ \E r \in {fill(tile_layer)} :
          /\ tile_layer' = r.layer
          /\ ret' = r.ret
    /\ last' = [op |-> "fill"]
    /\ pre' = tile_layer
    /\ UNCHANGED <<fillRest, mon>>

FillInit ==
    /\ InitOthers
    /\ project = DefaultProject
    /\ tile_layer \in FillLayers

FillNext == FillSelectPicker \/ FillSelectCanvas \/ FillFill

FillSpec == FillInit /\ [][FillNext]_vars

---------------------------------------------------------------------------
(* Claims about fill().                                                    *)

\* fill() has just been called with a selection in the picker and one on
\* the canvas.
FillCall ==
    /\ last.op = "fill"
    /\ RectBool(pre.picker_selector.rect)
    /\ RectBool(pre.canvas_selector.rect)

\* The cells of the canvas of a layer.
CanvasCells(layer) == RectCells(to_rect(layer_canvas_dimen(layer)))

\* The canvas cell is selected.
SelectedCell(layer, c) == GridGet(layer.canvas_selector.sel, c) # 0

\* The picker cell of the claim for the canvas cell c: P + ((c.x - Q.x)
\* mod w, (c.y - Q.y) mod h).
WrappedPick(layer, c) ==
    Coord(layer.picker_selector.rect.c.x
          + ((c.x - layer.canvas_selector.rect.c.x)
             % layer.picker_selector.rect.d.w),
          layer.picker_selector.rect.c.y
          + ((c.y - layer.canvas_selector.rect.c.y)
             % layer.picker_selector.rect.d.h))

\* C20: fill() tiles the picker pattern with wraparound: with a picker
\* selection whose bounding rectangle has top-left P and size w x h and a
\* canvas selection whose bounding rectangle has top-left Q, after fill()
\* every selected canvas cell c holds to_tile(P + ((c.x - Q.x) mod w,
\* (c.y - Q.y) mod h)) and every canvas cell that is not selected, inside
\* or outside the bounding rectangle, is unchanged.
C20_FillTilesThePickerPattern ==
    FillCall =>
        /\ \A c \in CanvasCells(pre) :
               layer_get(tile_layer, c)
               = IF SelectedCell(pre, c)
                 THEN to_tile(pre, WrappedPick(pre, c))
                 ELSE layer_get(pre, c)
        /\ tile_layer.picker_selector = pre.picker_selector
        /\ tile_layer.canvas_selector = pre.canvas_selector

\* A 2x3 picker selection at (1, 1) and a 5x5 canvas selection at (1, 1)
\* with the cell (2, 2) taken out, on a layer whose picker is PickerW
\* wide: the far corner of the canvas selection, at offset (4, 4), holds
\* the picker cell (1, 2), and the cell taken out and the cell outside the
\* rectangle hold what they held.
C20_Witness ==
    /\ FillCall
    /\ pre.format = "LAYER_COLLISION"
    /\ pre.picker_selector.rect = Rect(Coord(1, 1), Dimen(2, 3))
    /\ pre.canvas_selector.rect = Rect(Coord(1, 1), Dimen(5, 5))
    /\ ~SelectedCell(pre, Coord(2, 2))
    /\ layer_get(tile_layer, Coord(5, 5)) = 1 + 2 * PickerW
    /\ layer_get(tile_layer, Coord(3, 4)) = 1 + 1 * PickerW
    /\ layer_get(tile_layer, Coord(2, 2)) = layer_get(pre, Coord(2, 2))
    /\ layer_get(tile_layer, Coord(0, 0)) = layer_get(pre, Coord(0, 0))
    /\ layer_get(tile_layer, Coord(1, 1)) # layer_get(pre, Coord(1, 1))

---------------------------------------------------------------------------
(* copy, paste, fill_paste and dropper of tile_layer_t, and the tile-      *)
(* region command, on a layer value.                                       *)

\* std::uint32_t(~0u), the value of a buffer cell that holds no tile.  The
\* model holds the tile values below 2^31 as themselves and this one, all
\* 32 bits set, as the same bits read as a signed number.
NO_TILE == -1

\* tile_copy_t: the format of the layer copied from and the grid.
TileCopy(format, data) == [format |-> format, data |-> data]

\* tile_layer_t::reset and the overrides of color_layer_t and chr_layer_t.
layer_reset(layer, c) ==
    IF layer.format = "LAYER_COLOR" THEN layer_set(layer, c, 15)
    ELSE layer_set(layer, c, 0)

\* tile_layer_t::to_pick and the overrides of color_layer_t and
\* chr_layer_t.
to_pick(layer, tile) ==
    CASE layer.format = "LAYER_COLOR"
            -> Coord(tile \div layer.picker_selector.sel.d.h,
                     tile % layer.picker_selector.sel.d.h)
      [] layer.format = "LAYER_CHR"
            -> Coord((tile % 16384) % layer.picker_selector.sel.d.w,
                     (tile % 16384) \div layer.picker_selector.sel.d.w)
      [] OTHER -> Coord(tile % layer.picker_selector.sel.d.w,
                        tile \div layer.picker_selector.sel.d.w)

RECURSIVE CutFrom_resets_all(_, _, _)
RECURSIVE CutFrom(_, _, _)
\* The buffer the loop of copy fills: the cell c - rect.c gets get(c) when
\* c is selected and the value for no tile when it is not.  Every cell of
\* rect is visited once, and get(c) is read before c is reset.
CopyData(layer, rect) ==
    Grid(rect.d,
         [i \in DOMAIN rect_range(rect) |->
             IF GridGet(layer.canvas_selector.sel, rect_range(rect)[i]) # 0
             THEN layer_get(layer, rect_range(rect)[i])
             ELSE NO_TILE])

\* A variant of the cut of copy that resets every cell of rect.
CutFrom_resets_all(layer, cells, i) ==
    IF i > Len(cells) THEN layer
    ELSE CutFrom_resets_all(layer_reset(layer, cells[i]), cells, i + 1)

\* The resets of the loop of copy when a command is asked for: reset(c)
\* for the selected cells of rect from the i-th on.
CutFrom(layer, cells, i) ==
    IF i > Len(cells) THEN layer
    ELSE CutFrom(IF GridGet(layer.canvas_selector.sel, cells[i]) # 0
                 THEN layer_reset(layer, cells[i])
                 ELSE layer,
                 cells, i + 1)

CopyOf(layer, rect, cut) ==
    [layer |-> IF cut THEN CutFrom(layer, rect_range(rect), 1) ELSE layer,
     copy |-> TileCopy(layer.format, CopyData(layer, rect)),
     cut |-> IF cut THEN layer_save(layer, rect) ELSE NoOp]

\* tile_layer_t::copy(cut): cut says whether a command is asked for; the
\* command is what *cut holds on return.
copy(layer, cut) ==
    CopyOf(layer, crop(layer.canvas_selector.rect, layer_canvas_dimen(layer)),
           cut)

\* A paste that would also put the cells of no tile on the canvas.
PasteCell_opaque(layer, grid, pos, c) ==
    IF in_bounds(Coord(pos.x + c.x, pos.y + c.y), layer_canvas_dimen(layer))
    THEN layer_set(layer, Coord(pos.x + c.x, pos.y + c.y), GridGet(grid, c))
    ELSE layer

\* One round of the loop of paste.
PasteCell(layer, grid, pos, c) ==
    IF GridGet(grid, c) # NO_TILE
       /\ in_bounds(Coord(pos.x + c.x, pos.y + c.y), layer_canvas_dimen(layer))
    THEN layer_set(layer, Coord(pos.x + c.x, pos.y + c.y), GridGet(grid, c))
    ELSE layer

RECURSIVE PasteFrom(_, _, _, _, _)
PasteFrom(layer, grid, pos, cells, i) ==
    IF i > Len(cells) THEN layer
    ELSE PasteFrom(PasteCell(layer, grid, pos, cells[i]), grid, pos, cells,
                   i + 1)

\* tile_layer_t::paste; a copy of objects holds no grid.
paste(layer, buffer, pos) ==
    IF buffer.format = "LAYER_OBJECTS" THEN layer
    ELSE PasteFrom(layer, buffer.data, pos, dimen_range(buffer.data.d), 1)

\* One round of the loop of fill_paste.
FillPasteCell(layer, grid, canvas_rect, c) ==
    IF GridGet(layer.canvas_selector.sel, c) = 0 THEN layer
    ELSE IF GridGet(grid, Coord((c.x - canvas_rect.c.x) % grid.d.w,
                                (c.y - canvas_rect.c.y) % grid.d.h))
            # NO_TILE
            /\ in_bounds(c, layer_canvas_dimen(layer))
    THEN layer_set(layer, c,
                   GridGet(grid, Coord((c.x - canvas_rect.c.x) % grid.d.w,
                                       (c.y - canvas_rect.c.y) % grid.d.h)))
    ELSE layer

RECURSIVE FillPasteFrom(_, _, _, _, _)
FillPasteFrom(layer, grid, canvas_rect, cells, i) ==
    IF i > Len(cells) THEN layer
    ELSE FillPasteFrom(FillPasteCell(layer, grid, canvas_rect, cells[i]),
                       grid, canvas_rect, cells, i + 1)

FillPasteWith(layer, grid, canvas_rect) ==
    IF ~RectBool(canvas_rect) \/ ~DimenBool(grid.d)
    THEN [layer |-> layer, ret |-> NoOp]
    ELSE [layer |-> FillPasteFrom(layer, grid, canvas_rect,
                                  rect_range(layer.canvas_selector.rect), 1),
          ret |-> layer_save(layer, canvas_rect)]

\* tile_layer_t::fill_paste
fill_paste(layer, buffer) ==
    IF buffer.format = "LAYER_OBJECTS" THEN [layer |-> layer, ret |-> NoOp]
    ELSE FillPasteWith(layer, buffer.data,
                       crop(layer.canvas_selector.rect,
                            layer_canvas_dimen(layer)))

\* A variant of the picker selection of dropper that selects the cell
\* without a bounds check.
PickOne_unchecked(picker, c) ==
    SelMap(GridSet(GridFill(picker.sel, 0), c, 1), Rect(c, Dimen(1, 1)))

\* picker_selector.select_all(false); picker_selector.select(c)
PickOne(picker, c) == select_coord(select_all(picker, FALSE), c, TRUE)

\* tile_layer_t::dropper and chr_layer_t::dropper
dropper(layer, pos) ==
    [layer EXCEPT
        !.picker_selector = PickOne(@, to_pick(layer, layer_get(layer, pos))),
        !.chr_id = IF layer.format = "LAYER_CHR"
                   THEN (layer_get(layer, pos) \div 65536) % 65536
                   ELSE @]

\* The loop of model_t::operator()(undo_tiles_t) on the layer of the
\* command.
RECURSIVE LayerSetTiles(_, _, _, _)
LayerSetTiles(layer, cells, tiles, i) ==
    IF i > Len(cells) THEN layer
    ELSE LayerSetTiles(layer_set(layer, cells[i], tiles[i]), cells, tiles,
                       i + 1)

\* model_t::operator()(undo_tiles_t const&) on the layer of the command.
layer_apply_tiles(layer, undo) ==
    [layer |-> LayerSetTiles(layer, rect_range(undo.rect), undo.tiles, 1),
     ret |-> layer_save(layer, undo.rect)]

---------------------------------------------------------------------------
(* LayerSpec: selections and changes of the palette count, then one of     *)
(* fill, copy, paste, fill_paste and dropper on the layer, then the        *)
(* command returned applied or pushed.                                     *)

\* The tiles of the layer: two cells hold values that decode to picker
\* cells, the others do not.
DropperTiles ==
    Grid(Dimen(CanvasW, CanvasH),
         [i \in 1..(CanvasW * CanvasH) |->
             CASE i = 1 -> 5
               [] i = 2 -> 2 * 65536 + 3 * 16384 + 7
               [] OTHER -> 100 + i])

LayerLayers == {[l EXCEPT !.tiles = DropperTiles] : l \in FillLayers}

\* The buffers pasted: grids with and without cells that hold no tile, an
\* empty grid, a copy of objects.
Buffers ==
    {TileCopy("LAYER_CHR", Grid(Dimen(2, 2), <<7, NO_TILE, NO_TILE, 9>>)),
     TileCopy("LAYER_COLOR", Grid(Dimen(3, 1), <<NO_TILE, 5, 6>>)),
     TileCopy("LAYER_COLLISION", Grid(Dimen(0, 0), <<>>)),
     TileCopy("LAYER_OBJECTS", <<>>)}

\* The places pasted at: off the canvas to the upper left, inside, on the
\* last cell, past the last column.
PasteCoords ==
    {Coord(-1, -1), Coord(0, 0), Coord(1, 1),
     Coord(CanvasW - 1, CanvasH - 1), Coord(CanvasW, 0)}

DropperCoords == {Coord(0, 0), Coord(1, 0), Coord(2, 0)}

\* The calls on the selectors: the 2x3 rectangle and the whole picker are
\* selected; on the canvas the 5x5 rectangle and a rectangle that reaches
\* past the canvas are selected and a cell of both is deselected.
LayerPickerCalls ==
    {SelectCall(Rect(Coord(1, 1), Dimen(2, 3)), TRUE),
     SelectCall(Rect(Coord(0, 0), Dimen(PickerW, PickerH)), TRUE)}

LayerCanvasCalls ==
    {SelectCall(Rect(Coord(1, 1), Dimen(5, 5)), TRUE),
     SelectCall(Rect(Coord(0, 3), Dimen(CanvasW + 1, CanvasH + 1)), TRUE),
     SelectCall(Rect(Coord(2, 3), Dimen(1, 1)), FALSE)}

\* A call of select(r, select) on one of the selectors of the layer.
LayerSelected(call, layer) ==
    /\ mon.selects < MaxSelects
    /\ mon.ops = 0
    /\ tile_layer' = layer
    /\ last' = call
    /\ mon' = [mon EXCEPT !.selects = @ + 1]
    /\ pre' = tile_layer
    /\ UNCHANGED <<fillRest, ret>>

LayerSelectPicker ==
    \E call \in LayerPickerCalls :
        LayerSelected([op |-> "picker select", call |-> call],
                      [tile_layer EXCEPT
                          !.picker_selector =
                              select_rect(@, call.r, call.select)])

LayerSelectCanvas ==
    \E call \in LayerCanvasCalls :
        LayerSelected([op |-> "canvas select", call |-> call],
                      [tile_layer EXCEPT
                          !.canvas_selector =
                              select_rect(@, call.r, call.select)])

\* model_t::operator()(undo_palette_num_t): the count the palette layer
\* refers to is set.
LayerSetNum ==
    /\ mon.selects < MaxSelects
    /\ mon.ops = 0
    /\ tile_layer.format = "LAYER_COLOR"
    /\ \E num \in {2, CanvasH} \ {tile_layer.num} :
          /\ tile_layer' = [tile_layer EXCEPT !.num = num]
          /\ ret' = undo_palette_num_t(tile_layer.num)
          /\ last' = [op |-> "palette num", num |-> num]
    /\ mon' = [mon EXCEPT !.selects = @ + 1]
    /\ pre' = tile_layer
    /\ UNCHANGED fillRest

\* The one operation of a run has been made: the layer and what was
\* returned.
LayerDone(call, layer, returned) ==
    /\ mon.ops = 0
    /\ tile_layer' = layer
    /\ ret' = returned
    /\ last' = call
    /\ pre' = tile_layer
    /\ mon' = [mon EXCEPT !.ops = 1]
    /\ UNCHANGED fillRest

LayerFill ==
    \E r \in {fill(tile_layer)} : LayerDone([op |-> "fill"], r.layer, r.ret)

LayerCopy ==
    \E cut \in BOOLEAN :
        \E r \in {copy(tile_layer, cut)} :
            LayerDone([op |-> "copy", cut |-> cut, copy |-> r.copy],
                      r.layer, r.cut)

\* paste(copy, at); a run pastes before its second selection.
LayerPaste ==
    /\ mon.selects <= 1
    /\ \E buffer \in Buffers, pos \in PasteCoords :
          LayerDone([op |-> "paste", copy |-> buffer, pos |-> pos],
                    paste(tile_layer, buffer, pos), NoOp)

LayerFillPaste ==
    \E buffer \in Buffers :
        \E r \in {fill_paste(tile_layer, buffer)} :
            LayerDone([op |-> "fill_paste", copy |-> buffer], r.layer, r.ret)

\* dropper(at); a run uses it before its second selection.
LayerDropper ==
    /\ mon.selects <= 1
    /\ \E pos \in DropperCoords :
          LayerDone([op |-> "dropper", pos |-> pos],
                    dropper(tile_layer, pos), NoOp)

\* The operation has returned a command.
Returned == mon.ops = 1 /\ last.op \in {"fill", "copy", "fill_paste"}

\* model.undo(command) with the tile-region command the operation returned:
\* last.before is the layer before the operation.
LayerApply ==
    /\ Returned
    /\ ret.type = "undo_tiles_t"
    /\ \E r \in {layer_apply_tiles(tile_layer, ret)} :
          /\ tile_layer' = r.layer
          /\ ret' = r.ret
    /\ last' = [op |-> "apply", of |-> last.op, before |-> pre]
    /\ pre' = tile_layer
    /\ UNCHANGED <<fillRest, mon>>

\* history.push(command) with the command the operation returned.
LayerPush ==
    /\ Returned
    /\ history' = push(history, ret)
    /\ pre_history' = history
    /\ last' = [op |-> "push", of |-> last.op]
    /\ UNCHANGED <<selVars, docVars, dirtyVars, fileVars, chrVars,
                   tile_layer, level_model, ret, pre, mon>>

LayerInit ==
    /\ InitOthers
    /\ project = DefaultProject
    /\ tile_layer \in LayerLayers

LayerNext ==
    \/ LayerSelectPicker
    \/ LayerSelectCanvas
    \/ LayerSetNum
    \/ LayerFill
    \/ LayerCopy
    \/ LayerPaste
    \/ LayerFillPaste
    \/ LayerDropper
    \/ LayerApply
    \/ LayerPush

LayerSpec == LayerInit /\ [][LayerNext]_vars

---------------------------------------------------------------------------
(* Claims about the record of fill, empty selections, copy, paste and      *)
(* dropper.                                                                *)

\* The cells of the tile grid of a layer.
GridCells(layer) == RectCells(to_rect(layer.tiles.d))

\* The operation op has just been made on the layer pre.
LayerCall(op) == mon.ops = 1 /\ last.op = op

\* The command an operation returned has just been applied.
AppliedAfter(op) == last.op = "apply" /\ last.of = op

\* C21: the record returned by fill() captures the whole pre-fill region:
\* for every layer kind, the palette layer included, and after any
\* selections and changes of the palette count, applying the record
\* restores every cell that fill() changed to its pre-fill value.
C21_FillRecordRestores ==
    AppliedAfter("fill") =>
        \A c \in GridCells(pre) :
            layer_get(pre, c) # layer_get(last.before, c)
            => layer_get(tile_layer, c) = layer_get(last.before, c)

\* The record restores the cells inside canvas_dimen(), which are all the
\* cells on a layer that is not the palette layer.
C21_RestoresInsideTheCanvas ==
    AppliedAfter("fill") =>
        /\ \A c \in CanvasCells(pre) :
               layer_get(tile_layer, c) = layer_get(last.before, c)
        /\ pre.format # "LAYER_COLOR" => tile_layer = last.before

\* A fill of the palette layer with two rows in use and a selection that
\* reaches below them has been undone: a cell below keeps the value
\* fill() gave it.
C21_BelowTheCountWitness ==
    /\ AppliedAfter("fill")
    /\ pre.format = "LAYER_COLOR" /\ pre.num = 2
    /\ last.before.canvas_selector.rect = Rect(Coord(1, 1), Dimen(5, 5))
    /\ pre_history = history
    /\ layer_get(tile_layer, Coord(1, 1)) = layer_get(last.before, Coord(1, 1))
    /\ layer_get(tile_layer, Coord(3, 3)) = layer_get(pre, Coord(3, 3))
    /\ layer_get(tile_layer, Coord(3, 3)) # layer_get(last.before, Coord(3, 3))

\* The operation was called with nothing to work on: no canvas selection,
\* for fill() also no picker selection, for fill_paste also a buffer
\* without cells.
NothingSelected ==
    \/ ~RectBool(pre.canvas_selector.rect)
    \/ last.op = "fill" /\ ~RectBool(pre.picker_selector.rect)
    \/ /\ last.op = "fill_paste"
       /\ last.copy.format # "LAYER_OBJECTS"
       /\ ~DimenBool(last.copy.data.d)

\* The command returned is the one push() ignores, and the tiles are as
\* they were.
NothingDone ==
    /\ ret = NoOp
    /\ push(history, ret) = history
    /\ tile_layer.tiles = pre.tiles

\* C22: fill(), fill_paste(buffer) and copy with cut requested, called
\* with an empty canvas selection (fill() also with an empty picker
\* selection, fill_paste also with an empty buffer), return the no-op
\* command, the one push() ignores, and leave the canvas unchanged.
C22_EmptySelectionGivesNoOp ==
    /\ LayerCall("fill") /\ NothingSelected => NothingDone
    /\ LayerCall("fill_paste") /\ NothingSelected => NothingDone
    /\ LayerCall("copy") /\ last.cut /\ NothingSelected => NothingDone

\* fill() and fill_paste do so.
C22_FillAndFillPasteGiveNoOp ==
    /\ LayerCall("fill") /\ NothingSelected => NothingDone
    /\ LayerCall("fill_paste") /\ NothingSelected => NothingDone

\* copy with cut requested on no selection has returned a tile-region
\* command of no cells, which push() puts on the undo stack.
C22_CutOfNothingWitness ==
    /\ LayerCall("copy") /\ last.cut /\ NothingSelected
    /\ ret = undo_tiles_t(pre.format, EmptyRect, <<>>)
    /\ push(history, ret)[UNDO] = <<ret>>
    /\ tile_layer = pre

\* The value reset() gives a cell.
EmptyTile(layer) == IF layer.format = "LAYER_COLOR" THEN 15 ELSE 0

\* What copy() holds for the rectangle r of the layer before the call:
\* the buffer has the size of r and its cells hold the selected cells'
\* values; with cut exactly the selected cells of r are reset and the
\* command returned holds the values of r.
CopyOfRect(r) ==
    /\ last.copy.format = pre.format
    /\ last.copy.data.d = r.d
    /\ \A c \in RectCells(r) :
           GridGet(last.copy.data, Coord(c.x - r.c.x, c.y - r.c.y))
           = IF SelectedCell(pre, c) THEN layer_get(pre, c) ELSE NO_TILE
    /\ tile_layer.picker_selector = pre.picker_selector
    /\ tile_layer.canvas_selector = pre.canvas_selector

CutOfRect(r) ==
    \A c \in GridCells(pre) :
        layer_get(tile_layer, c)
        = IF last.cut /\ c \in RectCells(r) /\ SelectedCell(pre, c)
          THEN EmptyTile(pre)
          ELSE layer_get(pre, c)

\* C23: copy() returns a buffer the size of the canvas selection's
\* bounding rectangle in which each selected cell holds the cell's canvas
\* value and each unselected cell 0xFFFFFFFF; with cut requested exactly
\* the selected cells are reset to the layer's empty encoding, the others
\* are unchanged, and applying the returned record restores the canvas.
C23_CopyOfTheBoundingRect ==
    /\ LayerCall("copy") =>
          /\ CopyOfRect(pre.canvas_selector.rect)
          /\ \A c \in GridCells(pre) :
                 layer_get(tile_layer, c)
                 = IF last.cut /\ SelectedCell(pre, c)
                   THEN EmptyTile(pre)
                   ELSE layer_get(pre, c)
    /\ AppliedAfter("copy") => tile_layer = last.before

\* The same of the bounding rectangle cropped to the canvas.
C23_CopyOfTheCroppedRect ==
    /\ LayerCall("copy") =>
          /\ CopyOfRect(crop(pre.canvas_selector.rect,
                             layer_canvas_dimen(pre)))
          /\ CutOfRect(crop(pre.canvas_selector.rect,
                            layer_canvas_dimen(pre)))
    /\ AppliedAfter("copy") => tile_layer = last.before

\* A cut of a 5x5 selection with a cell taken out: the buffer holds the
\* value of a selected cell and no tile for the cell taken out, the
\* selected cell is reset.
C23_Witness ==
    /\ LayerCall("copy") /\ last.cut
    /\ pre.format = "LAYER_CHR"
    /\ pre.canvas_selector.rect = Rect(Coord(1, 1), Dimen(5, 5))
    /\ ~SelectedCell(pre, Coord(2, 3))
    /\ last.copy.data.d = Dimen(5, 5)
    /\ GridGet(last.copy.data, Coord(1, 2)) = NO_TILE
    /\ GridGet(last.copy.data, Coord(0, 0)) = layer_get(pre, Coord(1, 1))
    /\ layer_get(tile_layer, Coord(1, 1)) = 0
    /\ layer_get(pre, Coord(1, 1)) # 0
    /\ layer_get(tile_layer, Coord(2, 3)) = layer_get(pre, Coord(2, 3))
    /\ ret.rect = Rect(Coord(1, 1), Dimen(5, 5))

\* A copy of the palette layer with two rows in use and a selection that
\* reaches below them: the buffer has one row.
C23_CroppedWitness ==
    /\ LayerCall("copy") /\ last.cut
    /\ pre.format = "LAYER_COLOR" /\ pre.num = 2
    /\ pre.canvas_selector.rect = Rect(Coord(1, 1), Dimen(5, 5))
    /\ last.copy.data.d = Dimen(5, 1)
    /\ layer_get(tile_layer, Coord(1, 1)) = 15
    /\ layer_get(tile_layer, Coord(1, 2)) = layer_get(pre, Coord(1, 2))

\* The buffer cell that paste(buffer, at) puts on the canvas cell c, when
\* there is one.
PastedOn(c) ==
    /\ last.copy.format # "LAYER_OBJECTS"
    /\ in_bounds(Coord(c.x - last.pos.x, c.y - last.pos.y), last.copy.data.d)
    /\ GridGet(last.copy.data, Coord(c.x - last.pos.x, c.y - last.pos.y))
       # NO_TILE
    /\ in_bounds(c, layer_canvas_dimen(pre))

\* C24: paste(buffer, at) is a transparent paste: for every buffer cell c
\* the canvas cell at + c is set to the buffer value if and only if that
\* value is not 0xFFFFFFFF and at + c lies inside the canvas, also for a
\* negative at; every other cell is unchanged and no cell outside the
\* canvas is written.
C24_PasteIsTransparent ==
    LayerCall("paste") =>
        /\ \A c \in GridCells(pre) :
               layer_get(tile_layer, c)
               = IF PastedOn(c)
                 THEN GridGet(last.copy.data,
                              Coord(c.x - last.pos.x, c.y - last.pos.y))
                 ELSE layer_get(pre, c)
        /\ tile_layer.tiles.d = pre.tiles.d
        /\ tile_layer.picker_selector = pre.picker_selector
        /\ tile_layer.canvas_selector = pre.canvas_selector

\* The 2x2 buffer with two cells of no tile pasted at (-1, -1): its last
\* cell lands on the first canvas cell, the others land nowhere.
C24_Witness ==
    /\ LayerCall("paste")
    /\ last.pos = Coord(-1, -1)
    /\ last.copy.data = Grid(Dimen(2, 2), <<7, NO_TILE, NO_TILE, 9>>)
    /\ layer_get(tile_layer, Coord(0, 0)) = 9
    /\ layer_get(pre, Coord(0, 0)) # 9
    /\ \A c \in GridCells(pre) \ {Coord(0, 0)} :
           layer_get(tile_layer, c) = layer_get(pre, c)

\* The same buffer pasted inside: the cells under the cells of no tile
\* keep their values.
C24_InsideWitness ==
    /\ LayerCall("paste")
    /\ last.pos = Coord(1, 1)
    /\ last.copy.data = Grid(Dimen(2, 2), <<7, NO_TILE, NO_TILE, 9>>)
    /\ layer_get(tile_layer, Coord(1, 1)) = 7
    /\ layer_get(tile_layer, Coord(2, 2)) = 9
    /\ layer_get(tile_layer, Coord(2, 1)) = layer_get(pre, Coord(2, 1))
    /\ layer_get(tile_layer, Coord(2, 1)) # NO_TILE

\* The picker cell the tile under the dropper decodes to.
Dropped == to_pick(pre, layer_get(pre, last.pos))

\* The picker selection is the one cell c.
OnePicked(c) ==
    /\ CellsWith(tile_layer.picker_selector.sel, 1) = {c}
    /\ CellsWith(tile_layer.picker_selector.sel, 0)
       = RectCells(to_rect(pre.picker_selector.sel.d)) \ {c}
    /\ tile_layer.picker_selector.rect = Rect(c, Dimen(1, 1))

\* What dropper does beside the picker selection: on the graphics layer
\* the CHR id becomes the bits of the tile from the 16th on.
DropperRest ==
    /\ tile_layer.chr_id = IF pre.format = "LAYER_CHR"
                           THEN (layer_get(pre, last.pos) \div 65536) % 65536
                           ELSE pre.chr_id
    /\ tile_layer.tiles = pre.tiles
    /\ tile_layer.canvas_selector = pre.canvas_selector

\* C30: after dropper(coord), on any layer kind and for every tile value
\* a canvas cell can hold, the picker selection is exactly the one cell
\* to_pick(get(coord)) and its cached rectangle is that cell; on the
\* graphics layer the CHR id becomes tile >> 16.
C30_DropperPicksOneCell ==
    LayerCall("dropper") => OnePicked(Dropped) /\ DropperRest

\* The same when the cell lies in the picker; when it does not, nothing
\* is selected in the picker.
C30_DropperPicksTheCellInThePicker ==
    LayerCall("dropper") =>
        /\ IF in_bounds(Dropped, pre.picker_selector.sel.d)
           THEN OnePicked(Dropped)
           ELSE /\ CellsWith(tile_layer.picker_selector.sel, 1) = {}
                /\ tile_layer.picker_selector.sel.d
                   = pre.picker_selector.sel.d
                /\ ~RectBool(tile_layer.picker_selector.rect)
        /\ DropperRest

\* The dropper on a graphics tile of CHR source 2 with attribute 3 and
\* index 7, with the whole picker selected before.
C30_Witness ==
    /\ LayerCall("dropper")
    /\ pre.format = "LAYER_CHR" /\ pre.chr_id # 2
    /\ pre.picker_selector.rect = to_rect(Dimen(PickerW, PickerH))
    /\ layer_get(pre, last.pos) = 2 * 65536 + 3 * 16384 + 7
    /\ tile_layer.chr_id = 2
    /\ OnePicked(Coord(7 % PickerW, 7 \div PickerW))

\* The dropper on a tile that decodes to no picker cell.
C30_OutsideWitness ==
    /\ LayerCall("dropper")
    /\ pre.format = "LAYER_COLOR"
    /\ RectBool(pre.picker_selector.rect)
    /\ ~in_bounds(Dropped, pre.picker_selector.sel.d)
    /\ CellsWith(tile_layer.picker_selector.sel, 1) = {}

---------------------------------------------------------------------------
(* level_model_t: the layer-resize command, fill_attribute and count_mt,   *)
(* on a level value.  A call that reaches for a cell outside a grid has    *)
(* undefined behaviour or throws, as the grid decides (2d/grid.hpp); its   *)
(* outcomes are: thrown at the first such cell, what was written before    *)
(* it staying; or run through, the cells outside read as some value and    *)
(* written to memory that is no cell of the grid.                          *)

\* What a call on a level gives: the level, the value returned, whether a
\* cell outside a grid was reached for.
LevelOutcome(lv, r, oob) == [level |-> lv, ret |-> r, oob |-> oob]

\* chr_layer_t::save(): the layer-resize command holding the tiles.
chr_save(layer) == undo_level_dimen_t(layer.tiles)

\* model_t::operator()(undo_level_dimen_t const&) on the level of the
\* command: the tiles of the layer are exchanged.
level_apply_level_dimen(lv, undo) ==
    LevelOutcome([lv EXCEPT !.chr_layer.tiles = undo.tiles],
                 undo_level_dimen_t(lv.chr_layer.tiles), FALSE)

\* The cells of the rectangle of a tile-region command up to the first one
\* outside the grid; all of them when every cell is inside.
CellsInside(layer, cells) ==
    SubSeq(cells, 1,
           Min({Len(cells) + 1}
               \cup {i \in DOMAIN cells :
                        ~in_bounds(cells[i], layer.tiles.d)}) - 1)

\* model_t::operator()(undo_tiles_t const&) on the graphics layer of the
\* level: set(c, ...) is tiles.at(c).
level_apply_tiles(lv, undo) ==
    LevelOutcome(
        [lv EXCEPT !.chr_layer =
            LayerSetTiles(@, CellsInside(@, rect_range(undo.rect)),
                          undo.tiles, 1)],
        IF CellsInside(lv.chr_layer, rect_range(undo.rect))
           = rect_range(undo.rect)
        THEN layer_save(lv.chr_layer, undo.rect) ELSE out_of_range,
        CellsInside(lv.chr_layer, rect_range(undo.rect))
        # rect_range(undo.rect))

\* std::visit of model_t on a command of the level.
level_visit(lv, undo) ==
    CASE undo.type = "undo_tiles_t" -> level_apply_tiles(lv, undo)
      [] undo.type = "undo_level_dimen_t" -> level_apply_level_dimen(lv, undo)
      [] OTHER -> LevelOutcome(lv, undo, FALSE)

\* tiles.at(c) &= 0xFFFF3FFF; tiles.at(c) |= (active & 0b11) << 14
WithAttribute(tile, active) ==
    tile - ((tile \div 16384) % 4) * 16384 + (active % 4) * 16384

\* for_each_selected of the canvas selector reads cell c of the selection
\* grid, and the function of fill_attribute, when the cell is selected,
\* cell c of the tiles: one of the two is no cell of its grid.
AttributeOutside(layer, c) ==
    \/ ~in_bounds(c, layer.canvas_selector.sel.d)
    \/ /\ GridGet(layer.canvas_selector.sel, c) # 0
       /\ ~in_bounds(c, layer.tiles.d)

\* The position in the range of for_each_selected of the first cell
\* outside a grid; past the end when there is none.
FirstOutside(layer, cells) ==
    Min({Len(cells) + 1}
        \cup {i \in DOMAIN cells : AttributeOutside(layer, cells[i])})

\* The loop of fill_attribute over the first n - 1 cells of the range:
\* the selected cells get the active attribute.  Cells outside a grid are
\* passed over.
AttributeLoop(layer, cells, n) ==
    [layer EXCEPT !.tiles.m =
        [j \in DOMAIN @ |->
            IF \E i \in 1..(n - 1) :
                  /\ in_bounds(cells[i], layer.tiles.d)
                  /\ in_bounds(cells[i], layer.canvas_selector.sel.d)
                  /\ GridGet(layer.canvas_selector.sel, cells[i]) # 0
                  /\ GridIndex(layer.tiles.d, cells[i]) = j
            THEN WithAttribute(@[j], layer.active)
            ELSE @[j]]]

\* chr_layer_t::fill_attribute.  thrown says which outcome a call that
\* reaches outside a grid has.
fill_attribute(lv, thrown) ==
    IF \/ ~RectBool(crop(lv.chr_layer.canvas_selector.rect,
                         layer_canvas_dimen(lv.chr_layer)))
       \/ lv.chr_layer.active >= 4
    THEN LevelOutcome(lv, NoOp, FALSE)
    ELSE IF FirstOutside(lv.chr_layer,
                         rect_range(lv.chr_layer.canvas_selector.rect))
            > Len(rect_range(lv.chr_layer.canvas_selector.rect))
    THEN LevelOutcome(
             [lv EXCEPT !.chr_layer =
                 AttributeLoop(@, rect_range(@.canvas_selector.rect),
                               Len(rect_range(@.canvas_selector.rect)) + 1)],
             layer_save(lv.chr_layer,
                        crop(lv.chr_layer.canvas_selector.rect,
                             layer_canvas_dimen(lv.chr_layer))),
             FALSE)
    ELSE LevelOutcome(
             [lv EXCEPT !.chr_layer =
                 AttributeLoop(@, rect_range(@.canvas_selector.rect),
                               IF thrown
                               THEN FirstOutside(@,
                                        rect_range(@.canvas_selector.rect))
                               ELSE Len(rect_range(@.canvas_selector.rect))
                                    + 1)],
             IF thrown THEN out_of_range
             ELSE layer_save(lv.chr_layer,
                             crop(lv.chr_layer.canvas_selector.rect,
                                  layer_canvas_dimen(lv.chr_layer))),
             TRUE)

\* The corners of the blocks of count_mt, in the order of its two loops:
\* y and x in steps of s.
MtBlocks(d, s) ==
    [k \in 1..(((d.w + s - 1) \div s) * ((d.h + s - 1) \div s)) |->
        Coord(s * ((k - 1) % ((d.w + s - 1) \div s)),
              s * ((k - 1) \div ((d.w + s - 1) \div s)))]

\* mt.tiles of the block at b: the s * s tiles, 0 past the edge.
MtTiles(lv, s, b) ==
    [k \in 1..(s * s) |->
        IF /\ b.x + ((k - 1) % s) < lv.chr_layer.tiles.d.w
           /\ b.y + ((k - 1) \div s) < lv.chr_layer.tiles.d.h
        THEN lv.chr_layer.tiles.m[b.x + ((k - 1) % s)
                                  + (b.y + ((k - 1) \div s))
                                    * lv.chr_layer.tiles.d.w + 1]
        ELSE 0]

\* The position in the store of the collision grid that count_mt reads for
\* the block at b: (x / s) + (y / s) * ((d.w + s - 1) / s).
MtCollisionIndex(d, s, b) ==
    (b.x \div s) + (b.y \div s) * ((d.w + s - 1) \div s)

\* The position is past the end of the store.
MtOutside(lv, s, b) ==
    MtCollisionIndex(lv.chr_layer.tiles.d, s, b)
    >= Len(lv.collision_layer.tiles.m)

\* mt.collision, a std::uint8_t; junk is what a read past the end gives.
MtCollision(lv, s, b, junk) ==
    IF MtOutside(lv, s, b) THEN junk
    ELSE lv.collision_layer.tiles.m[
             MtCollisionIndex(lv.chr_layer.tiles.d, s, b) + 1] % 256

\* mt of the block at b.
Mt(lv, s, b, junk) ==
    [tiles |-> MtTiles(lv, s, b), collision |-> MtCollision(lv, s, b, junk)]

\* mt_map[mt] after the first pass.
MtCount(lv, s, mt, junk) ==
    Cardinality({k \in DOMAIN MtBlocks(lv.chr_layer.tiles.d, s) :
                    Mt(lv, s, MtBlocks(lv.chr_layer.tiles.d, s)[k], junk)
                    = mt})

\* mt_map.size()
MtSize(lv, s, junk) ==
    Cardinality({Mt(lv, s, MtBlocks(lv.chr_layer.tiles.d, s)[k], junk) :
                    k \in DOMAIN MtBlocks(lv.chr_layer.tiles.d, s)})

\* The coordinates the second pass calls select() with: for each block
\* whose count is at most select, its s * s cells.
MtSelectCalls(lv, s, select, junk) ==
    Flatten([k \in DOMAIN MtBlocks(lv.chr_layer.tiles.d, s) |->
        IF MtCount(lv, s,
                   Mt(lv, s, MtBlocks(lv.chr_layer.tiles.d, s)[k], junk),
                   junk) <= select
        THEN [i \in 1..(s * s) |->
                 Coord(MtBlocks(lv.chr_layer.tiles.d, s)[k].x + ((i - 1) % s),
                       MtBlocks(lv.chr_layer.tiles.d, s)[k].y
                       + ((i - 1) \div s))]
        ELSE <<>>])

RECURSIVE SelectEach(_, _, _, _)
\* chr_layer.canvas_selector.select(c) for the i-th to the j-th of cells,
\* one after the other: the first half of them, then the second.  A
\* selector without cells takes no select(c).
SelectEach(sm, cells, i, j) ==
    IF i > j \/ ~DimenBool(sm.sel.d) THEN sm
    ELSE IF i = j THEN select_coord(sm, cells[i], TRUE)
    ELSE SelectEach(SelectEach(sm, cells, i, (i + j) \div 2), cells,
                    (i + j) \div 2 + 1, j)

\* level_model_t::count_mt(metatile_size, select)
count_mt(lv, s, select, junk) ==
    IF s = 0 THEN LevelOutcome(lv, 0, FALSE)
    ELSE LevelOutcome(
             IF select = 0 THEN lv
             ELSE [lv EXCEPT !.chr_layer.canvas_selector =
                      SelectEach(select_all(@, FALSE),
                                 MtSelectCalls(lv, s, select, junk), 1,
                                 Len(MtSelectCalls(lv, s, select, junk)))],
             MtSize(lv, s, junk),
             \E k \in DOMAIN MtBlocks(lv.chr_layer.tiles.d, s) :
                 MtOutside(lv, s, MtBlocks(lv.chr_layer.tiles.d, s)[k]))

---------------------------------------------------------------------------
(* LevelSpec: a level, new or read from a file, is resized, selected in,   *)
(* given attributes, its steps undone and redone and the scale of the      *)
(* project changed; then count_mt is called.                               *)

\* The number of steps on a level, and the number of them after which
\* count_mt is still called.
MaxLevelSteps == 4
MaxStepsBeforeCount == 3

\* What read_file reads of a level: the scale of the project, the
\* dimension, the cells of the graphics grid and those of the collision
\* grid, which has the dimension collision_div gives.
LevelFile(mts, dimen, chr, coll) ==
    [mts |-> mts, dimen |-> dimen, chr |-> chr, coll |-> coll]

\* A level of four 2x2 blocks of which three hold the same tiles and two
\* of these the same collision value; a 3x3 level, whose blocks of 2x2
\* reach past the edge and whose middle tile has the CHR id 2, the
\* attribute 2 and the index 1; a 4x4 level of scale 1 with one cell of another
\* tile and one of another collision value.
LevelFiles ==
    {LevelFile(2, Dimen(4, 4),
               <<1, 2, 1, 2,
                 3, 4, 3, 4,
                 1, 2, 5, 6,
                 3, 4, 7, 8>>, <<1, 1, 2, 1>>),
     LevelFile(2, Dimen(3, 3),
               <<1, 1, 1,
                 1, 163841, 1,
                 1, 1, 1>>, <<0, 0, 0, 3>>),
     LevelFile(1, Dimen(4, 4),
               <<1, 1, 1, 1,
                 1, 1, 1, 1,
                 1, 1, 2, 1,
                 1, 1, 1, 1>>,
               <<0, 0, 5, 0,
                 0, 0, 0, 0,
                 0, 0, 0, 0,
                 0, 0, 0, 0>>)}

\* model_t::read_file, the part of a level: level.resize(dimen,
\* collision_div(dimen)) on a new level, then the cells.
LevelOfFile(f) ==
    [level_resize(level_model_t, f.dimen, collision_div(f.mts, f.dimen))
        EXCEPT !.chr_layer.tiles.m = f.chr,
               !.collision_layer.tiles.m = f.coll]

\* The dimensions a level is resized to, the scales the project is given,
\* the selections made on the graphics canvas, the block sizes and
\* thresholds of count_mt, the attributes chosen (4 is ACTIVE_COLLISION),
\* the values a read past the end of the collision
\* store gives.
LevelDimens == {Dimen(0, 0), Dimen(2, 2), Dimen(3, 3), Dimen(LevelW, LevelH)}
MetatileSizes == {1, 2}
LevelSelectCalls ==
    {SelectCall(Rect(Coord(0, 0), Dimen(LevelW + 1, LevelH + 1)), TRUE),
     SelectCall(Rect(Coord(1, 1), Dimen(1, 1)), TRUE)}
Actives == {0, 3, 4}
BlockSizes == 0..3
Thresholds == 0..2
Junk == {0, 255}

levelRest == <<selVars, docVars, fp, chrVars, tile_layer, pre_history>>

\* A step on the level has been made; dirty says whether it went through
\* model_t::undo, which calls modify().
LevelStep(call, out, hist, mts, dirty) ==
    /\ ~mon.oob
    /\ mon.ops = 0
    /\ mon.steps < MaxLevelSteps
    /\ level_model' = out.level
    /\ ret' = out.ret
    /\ last' = call
    /\ pre' = level_model
    /\ history' = hist
    /\ project' = [project EXCEPT !.metatile_size = mts]
    /\ modified' = (modified \/ dirty)
    /\ modified_since_save' = (modified_since_save \/ dirty)
    /\ mon' = [mon EXCEPT !.steps = @ + 1, !.oob = out.oob,
                          !.u = IF call.op = "undo" THEN @ + 1 ELSE @]
    /\ UNCHANGED levelRest

\* read_file: the scale of the project and the level of the file.
LevelLoad ==
    /\ mon.steps = 0 /\ mon.ops = 0 /\ mon.loads = 0
    /\ \E f \in LevelFiles :
          /\ level_model' = LevelOfFile(f)
          /\ project' = [project EXCEPT !.metatile_size = f.mts]
          /\ last' = [op |-> "load", file |-> f]
    /\ pre' = level_model
    /\ mon' = [mon EXCEPT !.loads = 1]
    /\ UNCHANGED <<levelRest, dirtyVars, history, ret>>

\* The layer resize: the prior grid is held in a command, the level is
\* resized, the collision layer by collision_div, and the command pushed.
LevelResize ==
    \E d \in LevelDimens \ {level_model.chr_layer.tiles.d} :
        LevelStep([op |-> "resize", d |-> d],
                  LevelOutcome(
                      level_resize(level_model, d,
                          collision_div(project.metatile_size, d)),
                      chr_save(level_model.chr_layer), FALSE),
                  push(history, chr_save(level_model.chr_layer)),
                  project.metatile_size, FALSE)

\* model_t::metatile_size is given another value.
LevelSetMetatileSize ==
    \E n \in MetatileSizes \ {project.metatile_size} :
        LevelStep([op |-> "metatile_size", n |-> n],
                  LevelOutcome(level_model, NoOp, FALSE), history, n, FALSE)

\* chr_layer.canvas_selector.select(r, select)
LevelSelect ==
    \E call \in LevelSelectCalls :
        LevelStep([op |-> "select", call |-> call],
                  LevelOutcome(
                      [level_model EXCEPT !.chr_layer.canvas_selector =
                          select_rect(@, call.r, call.select)],
                      NoOp, FALSE),
                  history, project.metatile_size, FALSE)

\* chr_layer.fill_attribute() with the attribute chosen in the editor
\* (level_model_t::active, to which chr_layer.active refers), the command
\* returned pushed.
LevelFillAttribute ==
    \E thrown \in BOOLEAN, active \in Actives :
        \E out \in {fill_attribute(
                        [level_model EXCEPT !.chr_layer.active = active],
                        thrown)} :
            LevelStep([op |-> "fill_attribute", active |-> active], out,
                      IF out.ret = out_of_range THEN history
                      ELSE push(history, out.ret),
                      project.metatile_size, FALSE)

\* undo_history_t::undo<U>(model) with a command on the stack.
LevelUndoRedo(U) ==
    /\ history[U] # <<>>
    /\ \E out \in {level_visit(level_model, Head(history[U]))} :
          LevelStep([op |-> "undo", U |-> U], out,
                    IF out.ret = out_of_range THEN history
                    ELSE history_moved(history, U, out.ret),
                    project.metatile_size, TRUE)

LevelUndo == LevelUndoRedo(UNDO)
LevelRedo == LevelUndoRedo(REDO)

\* count_mt(s, select)
LevelCountMt ==
    /\ ~mon.oob
    /\ mon.ops = 0
    /\ mon.steps <= MaxStepsBeforeCount
    /\ \E s \in BlockSizes, select \in Thresholds, junk \in Junk :
          \E out \in {count_mt(level_model, s, select, junk)} :
              /\ level_model' = out.level
              /\ ret' = out.ret
              /\ last' = [op |-> "count_mt", s |-> s, select |-> select,
                          junk |-> IF out.oob THEN junk ELSE 0]
              /\ mon' = [mon EXCEPT !.ops = 1, !.oob = out.oob]
    /\ pre' = level_model
    /\ UNCHANGED <<levelRest, dirtyVars, history, project>>

LevelInit ==
    /\ InitEditor
    /\ project = DefaultProject

LevelNext ==
    \/ LevelLoad
    \/ LevelResize
    \/ LevelSetMetatileSize
    \/ LevelSelect
    \/ LevelFillAttribute
    \/ LevelUndo
    \/ LevelRedo
    \/ LevelCountMt

LevelSpec == LevelInit /\ [][LevelNext]_vars

---------------------------------------------------------------------------
(* Claims about the level: the dimensions of its grids, the cells its      *)
(* operations reach for, and count_mt.                                     *)

\* The layers of the level.
ChrLayer == level_model.chr_layer
CollisionLayer == level_model.collision_layer

\* C25: for every graphics layer, after any sequence of canvas resizes,
\* layer-resize commands, undo() and redo(), the dimension of the canvas
\* selection map equals the dimension of the layer's tile grid.
C25_SelectorMatchesTheTiles ==
    ChrLayer.canvas_selector.sel.d = ChrLayer.tiles.d

\* The two are equal after a canvas resize and until a layer-resize command
\* is applied.
C25_EqualUntilACommandIsApplied ==
    history[REDO] = <<>> /\ mon.u = 0 => C25_SelectorMatchesTheTiles

\* A layer-resize command has been applied by undo(): the tiles have the
\* dimension of before the resize, the selection map that of after.
C25_UndoneResizeWitness ==
    /\ last.op = "undo" /\ last.U = UNDO
    /\ ret.type = "undo_level_dimen_t"
    /\ ChrLayer.tiles.d = Dimen(LevelW, LevelH)
    /\ ChrLayer.canvas_selector.sel.d = Dimen(2, 2)
    /\ ret.tiles.d = Dimen(2, 2)

\* C26: for every level, after any sequence of level resizes, layer-resize
\* commands, undo(), redo(), changes of the scale and file loads, the
\* dimension of the collision layer's canvas is collision_div of the
\* dimension of the graphics canvas, so that every graphics coordinate
\* maps to a collision cell inside the collision canvas and write_file
\* emits as many collision bytes as read_file consumes.
C26_CollisionCanvasIsTheDivision ==
    /\ layer_canvas_dimen(CollisionLayer)
       = collision_div(project.metatile_size, layer_canvas_dimen(ChrLayer))
    /\ \A c \in CanvasCells(ChrLayer) :
           in_bounds(Coord(c.x \div collision_scale(project.metatile_size),
                           c.y \div collision_scale(project.metatile_size)),
                     layer_canvas_dimen(CollisionLayer))
    /\ Len(CollisionLayer.tiles.m)
       = collision_div(project.metatile_size,
                       layer_canvas_dimen(ChrLayer)).w
         * collision_div(project.metatile_size,
                         layer_canvas_dimen(ChrLayer)).h

\* It is so after a file load and after a level resize.
C26_HoldsAfterLoadAndResize ==
    last.op \in {"init", "load", "resize"} => C26_CollisionCanvasIsTheDivision

\* With the scale never changed, a level resize has been undone: the
\* graphics canvas is LevelW x LevelH again, the collision canvas 2x2.
C26_UndoneResizeWitness ==
    /\ last.op = "undo" /\ last.U = UNDO
    /\ project.metatile_size = 0
    /\ layer_canvas_dimen(ChrLayer) = Dimen(LevelW, LevelH)
    /\ layer_canvas_dimen(CollisionLayer) = Dimen(2, 2)

\* C27: no sequence of selection calls, fill_attribute, count_mt, canvas
\* resizes, applications of tile-region or layer-resize commands, undo()
\* and redo() reads or writes a cell of a tile grid or of a selection grid
\* at a coordinate outside the grid.
C27_NoCellOutsideAGrid == ~mon.oob

\* The grids of the level before the last call agree: the selection map
\* with the tiles, the collision store with the blocks of size s.
GridsAgree(s) ==
    /\ pre.chr_layer.canvas_selector.sel.d = pre.chr_layer.tiles.d
    /\ pre.collision_layer.tiles.d
       = Dimen((pre.chr_layer.tiles.d.w + s - 1) \div s,
               (pre.chr_layer.tiles.d.h + s - 1) \div s)

\* No call on a level whose grids agree reaches outside a grid.
C27_InsideWhileTheGridsAgree ==
    /\ last.op = "count_mt" /\ last.s > 0 /\ GridsAgree(last.s) => ~mon.oob
    /\ last.op \in {"fill_attribute", "undo"} /\ GridsAgree(1) => ~mon.oob

\* fill_attribute after an undone resize to 0x0: the selection map has no
\* cell, its cached rectangle is 1x1, the cell read is outside.
C27_FillAttributeWitness ==
    /\ last.op = "fill_attribute"
    /\ mon.oob
    /\ pre.chr_layer.canvas_selector.sel.d = Dimen(0, 0)
    /\ pre.chr_layer.tiles.d = Dimen(LevelW, LevelH)

\* count_mt with the scale of the project after an undone resize: the
\* collision store is shorter than the blocks are many.
C27_CountMtWitness ==
    /\ last.op = "count_mt"
    /\ mon.oob
    /\ last.s = collision_scale(project.metatile_size)
    /\ mon.loads = 0 /\ project.metatile_size = 0

\* The block of the claim with its corner at b: the tiles in row-major
\* order, 0 past the edge, and the cell of the collision layer at the
\* block's column and row; no value when the layer has no such cell.
ClaimedTiles(lv, s, b) ==
    [k \in 1..(s * s) |->
        IF in_bounds(Coord(b.x + ((k - 1) % s), b.y + ((k - 1) \div s)),
                     lv.chr_layer.tiles.d)
        THEN layer_get(lv.chr_layer,
                       Coord(b.x + ((k - 1) % s), b.y + ((k - 1) \div s)))
        ELSE 0]

ClaimedCollision(lv, s, b) ==
    IF in_bounds(Coord(b.x \div s, b.y \div s), lv.collision_layer.tiles.d)
    THEN layer_get(lv.collision_layer, Coord(b.x \div s, b.y \div s))
    ELSE -1

ClaimedPair(lv, s, b) ==
    <<ClaimedTiles(lv, s, b), ClaimedCollision(lv, s, b)>>

\* The corners of the non-overlapping s x s blocks of the graphics canvas.
ClaimedBlocks(lv, s) ==
    {c \in CanvasCells(lv.chr_layer) : c.x % s = 0 /\ c.y % s = 0}

ClaimedPairs(lv, s) == {ClaimedPair(lv, s, b) : b \in ClaimedBlocks(lv, s)}

\* How many blocks have the pair of the block at b.
Occurrences(lv, s, b) ==
    Cardinality({o \in ClaimedBlocks(lv, s) :
                    ClaimedPair(lv, s, o) = ClaimedPair(lv, s, b)})

\* C28: count_mt(N, 0) for N >= 1 returns the number of distinct pairs
\* (tile sequence, collision value) of the N x N blocks of the graphics
\* canvas; it returns 0 for N = 0, and with select = 0 it changes neither
\* the tiles nor the canvas selection.
C28_CountsThePairs ==
    last.op = "count_mt" /\ last.select = 0 =>
        /\ ret = IF last.s = 0 THEN 0
                 ELSE Cardinality(ClaimedPairs(pre, last.s))
        /\ level_model = pre

\* It does so when the collision store has the width of the blocks of
\* size N.
C28_CountsWhereTheGridsAgree ==
    last.op = "count_mt" /\ last.select = 0
    /\ (last.s > 0 => GridsAgree(last.s))
    => /\ ret = IF last.s = 0 THEN 0
                ELSE Cardinality(ClaimedPairs(pre, last.s))
       /\ level_model = pre

\* It changes nothing with select = 0 and returns 0 for N = 0.
C28_ChangesNothing ==
    last.op = "count_mt" /\ last.select = 0 =>
        /\ level_model = pre
        /\ last.s = 0 => ret = 0

\* count_mt(2, 0) on the level of four blocks, three of the same tiles and
\* two of these of the same collision value: three pairs.
C28_Witness ==
    /\ last.op = "count_mt" /\ last.s = 2 /\ last.select = 0
    /\ GridsAgree(2)
    /\ Cardinality(ClaimedBlocks(pre, 2)) = 4
    /\ ret = 3

\* count_mt(2, 0) on the 4x4 level of scale 1, with no cell outside a grid
\* reached: the count is that of other cells than the blocks' cells.
C28_OtherCellWitness ==
    /\ last.op = "count_mt" /\ last.s = 2 /\ last.select = 0
    /\ ~mon.oob
    /\ mon.steps = 0
    /\ project.metatile_size = 1
    /\ Cardinality(ClaimedPairs(pre, 2)) = 2
    /\ ret = 3

\* The cells count_mt(N, t) is to select: the cells inside the canvas of
\* the blocks whose pair occurs at most t times.
ClaimedSelection(lv, s, t) ==
    {c \in CanvasCells(lv.chr_layer) :
        Occurrences(lv, s, Coord(c.x - (c.x % s), c.y - (c.y % s))) <= t}

\* The selection of the graphics canvas is the set S of cells and the
\* cached rectangle its bounding rectangle.
SelectionIs(S) ==
    /\ \A c \in S : in_bounds(c, ChrLayer.canvas_selector.sel.d)
    /\ CellsWith(ChrLayer.canvas_selector.sel, 1) = S
    /\ CellsWith(ChrLayer.canvas_selector.sel, 0)
       = RectCells(to_rect(ChrLayer.canvas_selector.sel.d)) \ S
    /\ ChrLayer.canvas_selector.rect
       = IF S = {} THEN EmptyRect
         ELSE rect_from_2_coords(
                  Coord(Min({c.x : c \in S}), Min({c.y : c \in S})),
                  Coord(Max({c.x : c \in S}), Max({c.y : c \in S})))

\* C29: count_mt(N, t) with t >= 1 first clears the canvas selection and
\* then selects exactly the in-canvas cells of every N x N block whose
\* pair occurs at most t times among all blocks; the cached rectangle
\* matches the selection and the count returned is that of t = 0.
C29_SelectsTheRareBlocks ==
    last.op = "count_mt" /\ last.s >= 1 /\ last.select >= 1 =>
        /\ SelectionIs(ClaimedSelection(pre, last.s, last.select))
        /\ ret = Cardinality(ClaimedPairs(pre, last.s))
        /\ ChrLayer.tiles = pre.chr_layer.tiles

\* It does so when the grids agree.
C29_SelectsWhereTheGridsAgree ==
    last.op = "count_mt" /\ last.s >= 1 /\ last.select >= 1
    /\ GridsAgree(last.s)
    => /\ SelectionIs(ClaimedSelection(pre, last.s, last.select))
       /\ ret = Cardinality(ClaimedPairs(pre, last.s))
       /\ ret = count_mt(pre, last.s, 0, 0).ret
       /\ ChrLayer.tiles = pre.chr_layer.tiles

\* count_mt(2, 1) on the level of four blocks with a cell selected before:
\* the two lower blocks are selected, the upper two, whose pair occurs
\* twice, are not.
C29_Witness ==
    /\ last.op = "count_mt" /\ last.s = 2 /\ last.select = 1
    /\ GridsAgree(2)
    /\ pre.chr_layer.tiles.d = Dimen(4, 4)
    /\ GridGet(pre.chr_layer.canvas_selector.sel, Coord(1, 1)) = 1
    /\ ret = 3
    /\ CellsWith(ChrLayer.canvas_selector.sel, 1)
       = RectCells(Rect(Coord(0, 2), Dimen(4, 2)))
    /\ ChrLayer.canvas_selector.rect = Rect(Coord(0, 2), Dimen(4, 2))

---------------------------------------------------------------------------
(* Claims about fill_attribute on the graphics layer of a level.           *)

\* The fields of a graphics tile: bits 0-13, bits 14-15, bits 16-31.
IndexBits(tile) == tile % 16384
AttrBits(tile) == (tile \div 16384) % 4
BankBits(tile) == (tile \div 65536) % 65536

\* The cell was selected on the graphics canvas before the last call.
SelectedBefore(c) ==
    /\ in_bounds(c, pre.chr_layer.canvas_selector.sel.d)
    /\ GridGet(pre.chr_layer.canvas_selector.sel, c) # 0

\* What the claim says of the last call, a fill_attribute with an
\* attribute 0..3.
AttributeFilled ==
    /\ ChrLayer.tiles.d = pre.chr_layer.tiles.d
    /\ \A c \in CanvasCells(pre.chr_layer) :
          IF SelectedBefore(c)
          THEN /\ AttrBits(layer_get(ChrLayer, c)) = last.active
               /\ IndexBits(layer_get(ChrLayer, c))
                  = IndexBits(layer_get(pre.chr_layer, c))
               /\ BankBits(layer_get(ChrLayer, c))
                  = BankBits(layer_get(pre.chr_layer, c))
          ELSE layer_get(ChrLayer, c) = layer_get(pre.chr_layer, c)
    /\ ret # out_of_range
    /\ level_visit(level_model, ret).level.chr_layer.tiles
       = pre.chr_layer.tiles
    /\ ChrLayer.canvas_selector = pre.chr_layer.canvas_selector

\* C31: fill_attribute() sets bits 14-15 of every selected canvas cell of
\* the graphics layer to the active attribute (0..3), leaves bits 0-13
\* and bits 16-31 of those cells and every bit of every unselected cell
\* unchanged, and returns a command whose application restores the prior
\* values of the region.
C31_FillAttributeSetsTheBits ==
    last.op = "fill_attribute" /\ last.active < 4 => AttributeFilled

\* It does so when the selection map has the dimension of the tiles.
C31_SetsTheBitsWhileTheGridsAgree ==
    last.op = "fill_attribute" /\ last.active < 4
    /\ pre.chr_layer.canvas_selector.sel.d = pre.chr_layer.tiles.d
    => AttributeFilled

\* With ACTIVE_COLLISION chosen fill_attribute changes nothing and
\* returns the command that does nothing.
C31_NothingForTheCollisionAttribute ==
    last.op = "fill_attribute" /\ last.active >= 4 =>
        /\ ChrLayer.tiles = pre.chr_layer.tiles
        /\ ret = NoOp

\* fill_attribute with attribute 3 on the selected middle cell of the 3x3
\* level: CHR id 2 and index 1 stay, the attribute 2 becomes 3, and the
\* command returned holds the one cell.
C31_Witness ==
    /\ last.op = "fill_attribute" /\ last.active = 3
    /\ pre.chr_layer.tiles.d = Dimen(3, 3)
    /\ pre.chr_layer.canvas_selector.sel.d = Dimen(3, 3)
    /\ CellsWith(pre.chr_layer.canvas_selector.sel, 1) = {Coord(1, 1)}
    /\ layer_get(pre.chr_layer, Coord(1, 1)) = 163841
    /\ layer_get(ChrLayer, Coord(1, 1)) = 2 * 65536 + 3 * 16384 + 1
    /\ ret.type = "undo_tiles_t"
    /\ ret.rect = Rect(Coord(1, 1), Dimen(1, 1))
    /\ ret.tiles = <<163841>>

\* fill_attribute on the 3x3 level after a resize to 4x4, a selection of
\* the whole canvas and the undo of the resize: the call throws at the
\* first selected cell outside the tiles, with the cells of the first row
\* changed and those of the other rows not.
C31_ThrownWitness ==
    /\ last.op = "fill_attribute" /\ last.active = 3
    /\ pre.chr_layer.tiles.d = Dimen(3, 3)
    /\ pre.chr_layer.canvas_selector.sel.d = Dimen(4, 4)
    /\ ret = out_of_range
    /\ AttrBits(layer_get(ChrLayer, Coord(0, 0))) = 3
    /\ SelectedBefore(Coord(1, 1))
    /\ layer_get(ChrLayer, Coord(1, 1)) = 163841

---------------------------------------------------------------------------
(* EncodeSpec: the tile values of the three layer classes with the pickers *)
(* of their constructors.  to_tile and reset are applied to every picker   *)
(* cell, attribute and a range of CHR ids; a layer with a picker cell and  *)
(* canvas cells selected is filled, cut, copied and pasted.                *)

\* The number of fill, copy, paste and fill_paste calls of a run.
MaxEncodeOps == 4

\* The CHR ids to_tile is applied with.
EncodeChrIds == {0, 1, 32768, 65535}

\* A layer with the picker of its constructor (model.hpp 304, 354, 364),
\* the cell pick selected in it and a 2x2 block less one cell selected on
\* the canvas.
EncodeLayer(format, picker, pick, chr_id, active) ==
    TileLayer(format,
              select_rect(select_resize(SelMapNew, picker),
                          Rect(pick, Dimen(1, 1)), TRUE),
              select_rect(select_rect(NewTileLayer.canvas_selector,
                                      Rect(Coord(1, 1), Dimen(2, 2)), TRUE),
                          Rect(Coord(2, 1), Dimen(1, 1)), FALSE),
              FillTiles, 3, chr_id, active)

\* The first and the last cell of a picker.
EncodePicks(picker) == {Coord(0, 0), Coord(picker.w - 1, picker.h - 1)}

EncodeLayers ==
    {EncodeLayer("LAYER_COLLISION", Dimen(4, 64), p, 0, 0) :
        p \in EncodePicks(Dimen(4, 64))}
    \cup {EncodeLayer("LAYER_COLOR", Dimen(4, 16), p, 0, 0) :
             p \in EncodePicks(Dimen(4, 16))}
    \cup {EncodeLayer("LAYER_CHR", Dimen(16, 64), Coord(0, 0), 0, 0),
          EncodeLayer("LAYER_CHR", Dimen(16, 64), Coord(15, 63), 65535, 3)}

\* The places pasted at: beside the selection and over the canvas edge.
EncodePasteCoords == {Coord(3, 3), Coord(CanvasW - 1, 0)}

\* to_tile(pick) of the layer with the attribute and the CHR id the
\* editor has chosen.
EncodeToTile ==
    /\ last.op = "init"
    /\ \E pick \in RectCells(to_rect(tile_layer.picker_selector.sel.d)),
          active \in 0..3,
          chr_id \in IF tile_layer.format = "LAYER_CHR" THEN EncodeChrIds
                     ELSE {0} :
          last' = [op |-> "to_tile", pick |-> pick, active |-> active,
                   chr_id |-> chr_id,
                   value |-> to_tile([tile_layer EXCEPT !.active = active,
                                                       !.chr_id = chr_id],
                                     pick)]
    /\ UNCHANGED <<fillRest, tile_layer, ret, pre, mon>>

\* reset(c) of a canvas cell.
EncodeReset ==
    /\ last.op = "init"
    /\ \E c \in {Coord(0, 0), Coord(CanvasW - 1, 1)} :
          /\ tile_layer' = layer_reset(tile_layer, c)
          /\ last' = [op |-> "reset", pos |-> c]
    /\ pre' = tile_layer
    /\ mon' = [mon EXCEPT !.ops = MaxEncodeOps]
    /\ UNCHANGED <<fillRest, ret>>

\* One of the calls of a run has been made.
EncodeDone(call, layer, buffer) ==
    /\ mon.ops < MaxEncodeOps
    /\ last.op # call.op
    /\ tile_layer' = layer
    /\ ret' = buffer
    /\ last' = call
    /\ pre' = tile_layer
    /\ mon' = [mon EXCEPT !.ops = @ + 1,
                          !.calls = IF call.op = "copy" THEN 1 ELSE @]
    /\ UNCHANGED fillRest

\* fill()
EncodeFill == EncodeDone([op |-> "fill"], fill(tile_layer).layer, ret)

\* copy(cut): the buffer returned is kept.
EncodeCopy ==
    \E cut \in BOOLEAN :
        EncodeDone([op |-> "copy", cut |-> cut],
                   copy(tile_layer, cut).layer, copy(tile_layer, cut).copy)

\* paste(buffer, pos) of the buffer kept.
EncodePaste ==
    /\ mon.calls = 1
    /\ \E pos \in EncodePasteCoords :
          EncodeDone([op |-> "paste", pos |-> pos],
                     paste(tile_layer, ret, pos), ret)

\* fill_paste(buffer) of the buffer kept.
EncodeFillPaste ==
    /\ mon.calls = 1
    /\ EncodeDone([op |-> "fill_paste"], fill_paste(tile_layer, ret).layer,
                  ret)

EncodeInit ==
    /\ InitOthers
    /\ project = DefaultProject
    /\ tile_layer \in EncodeLayers

EncodeNext ==
    \/ EncodeToTile
    \/ EncodeReset
    \/ EncodeFill
    \/ EncodeCopy
    \/ EncodePaste
    \/ EncodeFillPaste

EncodeSpec == EncodeInit /\ [][EncodeNext]_vars

---------------------------------------------------------------------------
(* Claims about the value that stands for no tile.                         *)

\* The selected cells of the canvas, and the rectangle copy() takes.
EncodeSelected ==
    {c \in CanvasCells(tile_layer) : SelectedCell(tile_layer, c)}

EncodeRect ==
    crop(tile_layer.canvas_selector.rect, layer_canvas_dimen(tile_layer))

\* The cell of the buffer kept came from a selected cell.
FromSelected(c) ==
    Coord(EncodeRect.c.x + c.x, EncodeRect.c.y + c.y) \in EncodeSelected

\* C32: 0xFFFFFFFF is no encoded tile: for every layer kind, every cell of
\* the picker, every attribute 0..3 and every CHR id 0..65535 to_tile
\* returns another value, and so does reset; hence a tile written by fill
\* or by the reset of a cut is never passed over as transparent by paste
\* or fill_paste.
C32_NoTileIsTheSentinel ==
    /\ last.op = "to_tile" => last.value # NO_TILE
    /\ last.op = "reset" => layer_get(tile_layer, last.pos) # NO_TILE
    /\ last.op \in {"fill", "copy"} =>
          \A c \in EncodeSelected : layer_get(tile_layer, c) # NO_TILE
    /\ last.op = "copy" =>
          \A c \in RectCells(to_rect(ret.data.d)) :
              FromSelected(c) <=> GridGet(ret.data, c) # NO_TILE
    /\ last.op = "paste" =>
          \A c \in RectCells(to_rect(ret.data.d)) :
              FromSelected(c)
              /\ in_bounds(Coord(last.pos.x + c.x, last.pos.y + c.y),
                           layer_canvas_dimen(tile_layer))
              => layer_get(tile_layer,
                           Coord(last.pos.x + c.x, last.pos.y + c.y))
                 = GridGet(ret.data, c)
    /\ last.op = "fill_paste" =>
          \A c \in EncodeSelected :
              FromSelected(Coord((c.x - EncodeRect.c.x) % ret.data.d.w,
                                 (c.y - EncodeRect.c.y) % ret.data.d.h))
              => layer_get(tile_layer, c)
                 = GridGet(ret.data,
                           Coord((c.x - EncodeRect.c.x) % ret.data.d.w,
                                 (c.y - EncodeRect.c.y) % ret.data.d.h))

\* to_tile of the last picker cell of the graphics layer with attribute 3
\* and CHR id 65535: 0xFFFFC3FF.
C32_Witness ==
    /\ last.op = "to_tile"
    /\ tile_layer.format = "LAYER_CHR"
    /\ last.pick = Coord(15, 63) /\ last.active = 3 /\ last.chr_id = 65535
    /\ last.value = Word32(65535, 3 * 16384 + 1023)
    /\ last.value = -15361

\* The graphics layer of CHR id 65535 and attribute 3 filled with the last
\* picker cell, cut, copied again and pasted: the cells the cut has reset
\* are pasted as tiles.
C32_PasteWitness ==
    /\ last.op = "paste" /\ last.pos = Coord(3, 3)
    /\ tile_layer.format = "LAYER_CHR"
    /\ GridGet(ret.data, Coord(0, 0)) = 0
    /\ GridGet(ret.data, Coord(1, 0)) = NO_TILE
    /\ layer_get(pre, Coord(3, 3)) # 0
    /\ layer_get(tile_layer, Coord(3, 3)) = 0
    /\ layer_get(tile_layer, Coord(4, 3)) = layer_get(pre, Coord(4, 3))

\* The same layer filled, copied and pasted: the tile 0xFFFFC3FF is
\* pasted.
C32_FilledPasteWitness ==
    /\ last.op = "paste" /\ last.pos = Coord(3, 3)
    /\ GridGet(ret.data, Coord(0, 0)) = -15361
    /\ layer_get(tile_layer, Coord(3, 3)) = -15361

---------------------------------------------------------------------------
(* ClassCountSpec: the files of projects with no, few and 255 classes are  *)
(* written, cut short or not, and read by a model that holds the project   *)
(* written or another one.                                                 *)

\* The numbers of classes of the projects written.
ClassCounts == {0, 1, 2, 3, 4, 255}

\* The i-th class of such a project: a name of one letter, no field or
\* the field f.
CountedClass(i) ==
    ObjectClass(<<97 + (i % 26)>>, <<>>, White,
                IF i % 2 = 0 THEN <<>> ELSE <<ClassField(StrF, StrU)>>)

\* A new level of the size level_model_t() gives it, 24 x 24.
FullSizeLevel ==
    [DefaultLevel EXCEPT !.chr_tiles = GridNew(Dimen(24, 24), 0),
                         !.collision_tiles = GridNew(Dimen(24, 24), 0)]

\* The default project, the project of no class with a level of full
\* size, and the projects of n classes with the default level and with
\* no level, of scale 0 and 2.
ClassCountProjects ==
    {DefaultProject,
     [DefaultProject EXCEPT !.object_classes = <<>>,
                            !.levels = <<FullSizeLevel>>]}
    \cup UNION {{[DefaultProject EXCEPT
                      !.object_classes = [i \in 1..n |-> CountedClass(i)],
                      !.levels = levels,
                      !.metatile_size = mts] :
                     n \in ClassCounts,
                     levels \in {<<>>, <<NewLevel(mts)>>}} :
                 mts \in {0, 2}}

ClassCountInit ==
    /\ InitEditor
    /\ project \in ClassCountProjects

\* The file is cut short: to nothing, inside and after the magic number,
\* in the head, in the middle, before its last bytes.
FileCut ==
    /\ mon.io = "written"
    /\ \E n \in {0, 7, 8, 9, 10, Len(fp) \div 2, Len(fp) - 2, Len(fp) - 1}
                \cap 0..(Len(fp) - 1) :
          fp' = SubSeq(fp, 1, n)
    /\ last' = [op |-> "truncate"]
    /\ mon' = [mon EXCEPT !.io = "truncated"]
    /\ UNCHANGED <<editorVars, project, ret, pre>>

ClassCountNext == FileWrite \/ FileCut \/ FileReplace \/ FileRead

ClassCountSpec == ClassCountInit /\ [][ClassCountNext]_vars

---------------------------------------------------------------------------
(* Claims about the class count of the project file.                       *)

\* The byte of the class count in the file written for the project p: it
\* follows the magic number, the version, the scale, the collision path,
\* the CHR sources, the palette count and the palette bytes.
ClassCountByte(p) ==
    write_file(p)[BodyColor(BodyNum(BodyChrFiles(BodyHead(write_file(p)))),
                            p.color_tiles.m).color.rd.pos]

\* C33: the class count is stored in one byte and read back as written:
\* for every project with 0..255 classes read_file reads exactly the
\* number of classes write_file wrote, 0 classes included.
C33_ClassCountReadAsWritten ==
    ReadOfWritten /\ Len(mon.saved.object_classes) <= 255 =>
        /\ ReadAll
        /\ project.object_classes = mon.saved.object_classes

\* It is for the projects with 1..255 classes.
C33_ReadAsWrittenFromOneClass ==
    ReadOfWritten /\ Len(mon.saved.object_classes) \in 1..255 =>
        /\ ReadAll
        /\ project.object_classes = mon.saved.object_classes
        /\ ClassCountByte(mon.saved) = Len(mon.saved.object_classes)

\* The project of 255 classes read back.
C33_Witness ==
    /\ ReadOfWritten /\ ReadAll
    /\ Len(mon.saved.object_classes) = 255
    /\ Len(project.object_classes) = 255
    /\ project.object_classes[255] = CountedClass(255)
    /\ pre = OtherProject

\* The project of no class and one level: the count is written as the
\* byte 0, read_file takes classes from the bytes of the level and fails
\* at the end of the file.
C33_NoClassWitness ==
    /\ ReadOfWritten
    /\ mon.saved.object_classes = <<>>
    /\ mon.saved.levels # <<>>
    /\ ClassCountByte(mon.saved) = 0
    /\ ret.threw # ""
    /\ Len(project.object_classes) > 0

---------------------------------------------------------------------------
(* Claims about reading a file cut short.                                  *)

\* read_file has been called on a file cut short.
ReadOfCut == last.op = "read_file" /\ last.file = "truncated"

\* C34: read_file on any proper prefix of a file write_file produced
\* fails with an error that carries a message; it never returns
\* successfully and never reads past the end of the data.
C34_CutFileFails ==
    ReadOfCut => /\ ret.threw # ""
                 /\ ret.pos <= Len(fp) + 1

\* It does so for the files of projects with at least one class.
C34_CutFileFailsFromOneClass ==
    ReadOfCut /\ mon.saved.object_classes # <<>> =>
        /\ ret.threw # ""
        /\ ret.pos <= Len(fp) + 1

\* It never reads past the end of the data.
C34_NeverPastTheEnd ==
    last.op = "read_file" => ret.pos <= Len(fp) + 1

\* The file of the project with no class and a level of full size, less
\* its last byte: read_file returns with 256 classes and no level, before
\* the end of the data.
C34_NoClassWitness ==
    /\ ReadOfCut
    /\ mon.saved.object_classes = <<>>
    /\ Len(fp) = Len(write_file(mon.saved)) - 1
    /\ ret.threw = ""
    /\ ret.pos < Len(fp)
    /\ Len(project.object_classes) = 256
    /\ project.levels = <<>>

\* The file of the project with 255 classes cut before its last byte: the
\* read fails at the end of the data.
C34_Witness ==
    /\ ReadOfCut
    /\ Len(mon.saved.object_classes) = 255
    /\ Len(fp) = Len(write_file(mon.saved)) - 1
    /\ ret.threw # ""
    /\ ret.pos = Len(fp) + 1

---------------------------------------------------------------------------
(* Claims about the palette of a paletted image.                           *)

\* The palette has an entry numbered e, from 0, and its alpha is at least
\* 128.
KeptEntry(palette, e) == e + 1 \in DOMAIN palette /\ palette[e + 1] >= 128

\* The palette has an entry numbered e and its alpha is below 128.
DroppedEntry(palette, e) == e + 1 \in DOMAIN palette /\ palette[e + 1] < 128

\* The number of entries before e with alpha at least 128.
KeptBefore(palette, e) ==
    Cardinality({j \in 0..(e - 1) : KeptEntry(palette, j)})

\* png_to_chr has just returned the patterns of a paletted image.
PalettedCall ==
    PngCall /\ ret.threw = "" /\ TheImage.colortype = "LCT_PALETTE"

\* The palette entry of pixel (x, y) of the b-th block of the image.
EntryAt(img, b, x, y) == img.raw[PixelAt(img, BlockOrigins(img)[b], x, y) + 1]

\* The b-th block was not skipped: the counter pushed for it is one more
\* than the counter pushed for the block before it.
Counted(indices, b) ==
    indices[b] = (IF b = 1 THEN 0 ELSE indices[b - 1]) + 1

\* C35: for a paletted source image, every palette entry with alpha >= 128
\* is kept and renumbered sequentially from 0 in palette order, every
\* pixel whose palette entry has alpha < 128 is marked transparent, and no
\* pixel whose entry has alpha >= 128 is; a block with at least one pixel
\* of a kept entry is never treated as fully transparent.
C35_KeptEntriesRenumbered ==
    PalettedCall =>
        /\ \A n \in 0..(TheImage.width * TheImage.height - 1) :
               /\ KeptEntry(TheImage.palette, TheImage.raw[n + 1]) =>
                      /\ PixelValue(TheImage, n)
                         = KeptBefore(TheImage.palette, TheImage.raw[n + 1])
                      /\ ~PixelTransparent(TheImage, n)
               /\ DroppedEntry(TheImage.palette, TheImage.raw[n + 1]) =>
                      PixelTransparent(TheImage, n)
        /\ \A b \in 1..NumBlocks(TheImage) :
               (\E x, y \in 0..7 :
                    KeptEntry(TheImage.palette, EntryAt(TheImage, b, x, y)))
               => Counted(ret.indices, b)

\* A block with holes after a clear block: pixels of the entries 1 and 4
\* (alpha 0 and 127) beside pixels of the entries 2 and 5 (alpha 128 and
\* 200), which are renumbered 1 and 3; the block is counted.
C35_Witness ==
    /\ PalettedCall
    /\ TheImage.palette = FourColours
    /\ NumBlocks(TheImage) = 2
    /\ ret.indices = <<0, 1>>
    /\ \E x, y \in 0..7 : EntryAt(TheImage, 1, x, y) = 4
    /\ \A e \in {1, 2, 4, 5} : \E x, y \in 0..7 : EntryAt(TheImage, 2, x, y) = e
    /\ \E n \in 64..127 :
           /\ TheImage.raw[n + 1] = 5
           /\ PixelValue(TheImage, n) = 3
    /\ \E n \in 64..127 :
           /\ TheImage.raw[n + 1] = 2
           /\ PixelValue(TheImage, n) = 1
    /\ \E n \in 64..127 :
           /\ TheImage.raw[n + 1] = 4
           /\ PixelTransparent(TheImage, n)

---------------------------------------------------------------------------
(* Claims about select_map_t::select_invert.                               *)

\* The step is a call of select_invert().
InvertStep == last'.op = "select_invert"

\* Every cell of the grid after the step is selected exactly if it was not
\* selected before, on a grid of the same dimension.
CellsFlipped ==
    /\ m_selection'.d = m_selection.d
    /\ \A c \in RectCells(to_rect(m_selection.d)) :
           GridGet(m_selection', c) = 1 <=> GridGet(m_selection, c) = 0

\* select_invert() called on the map the step leaves gives back the cells
\* and the cached rectangle of before the step.
SecondInvertRestores ==
    select_invert(SelMap(m_selection', m_select_rect')) = TheSelMap

\* C36: select_invert() applied twice to any select_map_t returns every
\* cell to its original selected or unselected state and the cached
\* rectangle to its original value; after one select_invert() a cell is
\* selected exactly if it was not selected before.
C36_InvertTwiceRestores ==
    [][InvertStep => CellsFlipped /\ SecondInvertRestores]_vars

\* The same for the maps whose grid has cells.
C36_RestoresWhereCellsAre ==
    [][InvertStep /\ m_selection.d.w > 0 /\ m_selection.d.h > 0
       => CellsFlipped /\ SecondInvertRestores]_vars

\* On a grid without cells other than the 0x0 grid the rectangle of after
\* the second call is empty as the one of before is.
C36_EmptyStaysEmpty ==
    [][/\ InvertStep
       /\ m_selection.d.w = 0 \/ m_selection.d.h = 0
       /\ m_selection.d # Dimen(0, 0)
       => /\ ~RectBool(m_select_rect)
          /\ select_invert(SelMap(m_selection', m_select_rect')).rect
             = EmptyRect]_vars

\* On every map the cells are flipped by one call and back by the second.
C36_CellsRestored ==
    [][InvertStep =>
          /\ CellsFlipped
          /\ select_invert(SelMap(m_selection', m_select_rect')).sel
             = m_selection]_vars

\* Two calls in a row on a 2x2 map with one cell selected: after the first
\* three cells were selected, after the second the one cell again.
C36_Witness ==
    /\ last.op = "select_invert"
    /\ m_selection = Grid(Dimen(2, 2), <<0, 1, 0, 0>>)
    /\ m_select_rect = Rect(Coord(1, 0), Dimen(1, 1))
    /\ select_invert(TheSelMap).rect = Rect(Coord(0, 0), Dimen(2, 2))

\* The map of no cell with the cached rectangle left by resize({0, 0}),
\* which a call of select_invert() would empty.
C36_EmptyGridWitness ==
    /\ last.op = "resize"
    /\ m_selection.d = Dimen(0, 0)
    /\ m_select_rect = Rect(Coord(0, 0), Dimen(1, 1))
    /\ select_invert(TheSelMap).rect = EmptyRect

---------------------------------------------------------------------------
(* DirtySpec: calls of model_t::undo, undo_history_t::push, undo() and     *)
(* redo() in any order, on a model whose dirty flags start cleared.  The   *)
(* commands applied are of every kind, the no-op included; the commands    *)
(* pushed need not have been applied, and one of them names an object the  *)
(* level does not hold, so that its application throws.                    *)

\* Largest number of calls in a run.
MaxDirtyOps == 3

\* The calls made so far: of model_t::undo, of push, of undo() and redo().
DirtyOps == mon.steps + mon.pushes + mon.calls

\* The object the commands carry.
DirtyObject == Object(Coord(0, 0), "a", "object", {})

\* The command that edits the object past the last one the level can hold.
BadEdit == undo_edit_object_t(MaxObjs, DirtyObject)

\* Commands of every kind that are valid for the document: they write the
\* first cell of a layer, resize the graphics layer to one cell, set the
\* palette count, and insert, delete, edit or move one object.
DirtyCmds(doc) ==
    {NoOp, BadEdit}
    \cup {undo_tiles_t(l, Rect(Coord(0, 0), Dimen(1, 1)), <<1>>) :
             l \in {k \in Layers :
                       in_bounds(Coord(0, 0), canvas_dimen(doc, k))}}
    \cup PaletteCmds
    \cup {undo_level_dimen_t(Grid(Dimen(1, 1), <<v>>)) : v \in TileVals}
    \cup {undo_new_object_t(<<>>)}
    \cup {undo_new_object_t(<<i>>) : i \in 0..(Len(doc.objects) - 1)}
    \cup {undo_delete_object_t(<<Pair(i, DirtyObject)>>) :
             i \in {k \in 0..Len(doc.objects) : Len(doc.objects) < MaxObjs}}
    \cup {undo_edit_object_t(i, DirtyObject) :
             i \in 0..(Len(doc.objects) - 1)}
    \cup {undo_move_objects_t(<<i>>, <<Coord(-1, 2)>>) :
             i \in 0..(Len(doc.objects) - 1)}

DirtyPushCmds == {NoOp, BadEdit} \cup PaletteCmds

\* model.undo(cmd), the command returned dropped.
DirtyApply ==
    /\ DirtyOps < MaxDirtyOps
    /\ \E cmd \in DirtyCmds(TheDoc) : ModelUndo(cmd)

\* history.push(cmd)
DirtyPush ==
    /\ DirtyOps < MaxDirtyOps
    /\ \E cmd \in DirtyPushCmds : HistoryPush(cmd)
    /\ mon' = [mon EXCEPT !.pushes = @ + 1]

\* history.undo<UNDO>(model)
DirtyUndo ==
    /\ DirtyOps < MaxDirtyOps
    /\ HistoryUndo(UNDO)
    /\ mon' = [mon EXCEPT !.calls = @ + 1]

\* history.undo<REDO>(model)
DirtyRedo ==
    /\ DirtyOps < MaxDirtyOps
    /\ HistoryUndo(REDO)
    /\ mon' = [mon EXCEPT !.calls = @ + 1]

DirtyInit == InitCommon

DirtyNext ==
    \/ DirtyApply
    \/ DirtyPush
    \/ DirtyUndo
    \/ DirtyRedo

DirtySpec == DirtyInit /\ [][DirtyNext]_vars

\* The step applies a command through model_t::undo: directly, or by
\* undo() or redo() on a stack that is not empty.
AppliesACommand ==
    \/ last'.op = "undo"
    \/ last'.op = "history_undo" /\ history[last'.U] # <<>>

\* The step is undo() or redo() on an empty stack, or a push.
AppliesNoCommand ==
    \/ last'.op = "push"
    \/ last'.op = "history_undo" /\ history[last'.U] = <<>>

\* C37: applying any command of any kind to the project through
\* model_t::undo, directly or by undo() or redo() on a non-empty stack,
\* leaves both dirty flags set; undo() and redo() on an empty stack and
\* push() leave the dirty flags unchanged.
C37_AppliedCommandsSetTheFlags ==
    [][/\ AppliesACommand => modified' /\ modified_since_save'
       /\ AppliesNoCommand => UNCHANGED dirtyVars]_vars

\* undo() has applied a command that was pushed, as the first command
\* applied in the run: the flags were cleared before it and are set.
C37_Witness ==
    /\ last.op = "history_undo" /\ last.U = UNDO
    /\ pre_history[UNDO] # <<>>
    /\ mon.steps = 0 /\ mon.calls = 1
    /\ modified /\ modified_since_save

\* The same where the command applied threw.
C37_ThrownWitness ==
    /\ last.op = "history_undo" /\ last.threw
    /\ mon.steps = 0 /\ mon.calls = 1
    /\ history = pre_history
    /\ modified /\ modified_since_save

\* The no-op applied directly as the first command.
C37_NoOpWitness ==
    /\ last.op = "undo" /\ last.cmd = NoOp
    /\ mon.steps = 1 /\ mon.calls = 0
    /\ modified /\ modified_since_save

\* redo() on an empty stack and a push with the flags cleared, and with
\* the flags set.
C37_EmptyStackWitness ==
    /\ last.op = "history_undo" /\ last.U = REDO
    /\ pre_history[REDO] = <<>>
    /\ mon.steps = 0 /\ mon.calls = 1
    /\ ~modified /\ ~modified_since_save

C37_PushWitness ==
    /\ last.op = "push" /\ last.cmd # NoOp
    /\ mon.steps = 1
    /\ history[UNDO] = <<last.cmd>>
    /\ modified /\ modified_since_save

---------------------------------------------------------------------------
(* Claims about the sizes of the two stacks.                               *)

\* The number of commands on the two stacks of h.
StackSum(h) == Len(h[UNDO]) + Len(h[REDO])

\* C38: in every state reachable by any interleaving of push, undo() and
\* redo(), the sizes of the undo stack and the redo stack sum to at most
\* 256, so that the redo stack is bounded although only the undo stack is
\* ever truncated; undo() and redo() each leave that sum unchanged.
C38_StackSizesSumToTheLimit ==
    /\ StackSum(history) <= UNDO_LIMIT
    /\ last.op = "history_undo" => StackSum(history) = StackSum(pre_history)

\* redo() has put a command on an undo stack of 255 commands, after the
\* stack had been truncated: it holds 256 commands and nothing is culled.
C38_Witness ==
    /\ last.op = "history_undo" /\ last.U = REDO
    /\ mon.pushes > UNDO_LIMIT
    /\ Len(pre_history[UNDO]) = UNDO_LIMIT - 1
    /\ Len(history[UNDO]) = UNDO_LIMIT
    /\ Len(pre_history[REDO]) = 1
    /\ Len(history[REDO]) = 0

\* Three calls of undo() on the full undo stack: the redo stack holds
\* three commands, the sum is the limit.
C38_RedoStackWitness ==
    /\ last.op = "history_undo" /\ last.U = UNDO
    /\ Len(history[REDO]) = 3
    /\ StackSum(history) = UNDO_LIMIT

---------------------------------------------------------------------------
(* Claims about packing by png_to_chr and unpacking by chr_to_bitmaps.     *)

\* The value png_to_chr holds for pixel (x, y) of the b-th block.
Assigned(img, b, x, y) ==
    PixelValue(img, PixelAt(img, BlockOrigins(img)[b], x, y))

\* The bits of pixel (x, y) in the two plane bytes of row y of the b-th
\* block are the two low bits of the value of that pixel.
OwnBits(chr, img, b, x, y) ==
    /\ Bit(chr[16 * (b - 1) + y + 1], 7 - x) = Assigned(img, b, x, y) % 2
    /\ Bit(chr[16 * (b - 1) + 8 + y + 1], 7 - x)
       = (Assigned(img, b, x, y) \div 2) % 2

\* What the claim says of the pixels of the b-th block.
PackedAsAssigned(chr, img, b) ==
    \A x, y \in 0..7 :
        /\ Assigned(img, b, x, y) \in 0..3
        /\ OwnBits(chr, img, b, x, y)
        /\ TileEntry(chr, 16 * (b - 1), x, y) = Assigned(img, b, x, y)

\* C39: packing and unpacking agree: for every source image of every
\* supported colour model, paletted images with more than four opaque
\* palette entries included, every pixel index png_to_chr packs is in
\* 0..3, each bit of a plane byte depends only on its own pixel, and the
\* 2-bit index chr_to_bitmaps reconstructs for pixel (x, y) of a tile from
\* the packed planes equals the index png_to_chr assigned to that pixel.
C39_UnpackedIsTheIndexPacked ==
    PngCall /\ ret.threw = "" =>
        \A b \in 1..NumBlocks(TheImage) :
            PackedAsAssigned(ret.chr, TheImage, b)

\* The same for the images whose values are all below 4: the grey, RGB and
\* grey-alpha images and the paletted ones with at most four opaque
\* entries.
C39_AgreeBelowFive ==
    PngCall /\ ret.threw = "" /\ TwoBit(TheImage) =>
        \A b \in 1..NumBlocks(TheImage) :
            PackedAsAssigned(ret.chr, TheImage, b)

\* With any palette the low plane holds the low bit of every value and
\* the index list is as long as the image has blocks.
C39_LowPlaneIsTheLowBit ==
    PngCall /\ ret.threw = "" =>
        /\ Len(ret.indices) = NumBlocks(TheImage)
        /\ \A b \in 1..NumBlocks(TheImage) :
               \A x, y \in 0..7 :
                   Bit(ret.chr[16 * (b - 1) + y + 1], 7 - x)
                   = Assigned(TheImage, b, x, y) % 2

\* A paletted image of four opaque entries with a block of all four
\* values beside transparent pixels: unpacked as assigned.
C39_Witness ==
    /\ PngCall /\ ret.threw = "" /\ TwoBit(TheImage)
    /\ TheImage.colortype = "LCT_PALETTE"
    /\ NumBlocks(TheImage) = 1
    /\ {Assigned(TheImage, 1, x, 0) : x \in 0..7} = 0..3
    /\ \E x, y \in 0..7 :
           PixelTransparent(TheImage,
                            PixelAt(TheImage, BlockOrigins(TheImage)[1],
                                    x, y))
    /\ \A x \in 0..7 :
           TileEntry(ret.chr, 0, x, 0) = Assigned(TheImage, 1, x, 0)

\* A paletted image of five opaque entries: the pixel (1, 0) has the
\* value 4, which is unpacked as 0, and the pixel (0, 0) left of it has
\* the value 0, which is unpacked as 2.
C39_SpillWitness ==
    /\ PngCall /\ ret.threw = ""
    /\ TheImage.palette = FiveColours
    /\ NumBlocks(TheImage) = 1
    /\ Assigned(TheImage, 1, 1, 0) = 4
    /\ TileEntry(ret.chr, 0, 1, 0) = 0
    /\ Assigned(TheImage, 1, 0, 0) = 0
    /\ TileEntry(ret.chr, 0, 0, 0) = 2

===========================================================================
